---------------------------- MODULE Spec2Model ----------------------------
(***************************************************************************)
(* CSV ingestion pipelines of the exambigdata repository: four scripts    *)
(* (sqlite, postgresql, mongodb, duckdb) that read a CSV file, replace a  *)
(* destination table/collection named utenti with its rows, and answer    *)
(* one count query on a column found by name heuristics.                  *)
(*                                                                         *)
(* Text is modelled by TLA+ strings; TLC evaluates Len, Head, Tail,       *)
(* SubSeq and \o on them, so every string function of the code is        *)
(* computed character by character.                                       *)
(***************************************************************************)
EXTENDS Integers, Sequences, FiniteSets, Bags, TLC

(***************************************************************************)
(* Bounds of the model.                                                    *)
(***************************************************************************)
\* longest explicitly enumerated list of data rows of a small source
MaxSmallRows == 2
\* large sources have up to MaxBatches full batches (plus or minus one row)
MaxBatches == 2
\* number of consecutive runs of a script against the same destination
MaxRuns == 2
\* longest raw column name enumerated over SanAlphabet
MaxNameLen == 3
\* longest list of field names enumerated for the field matchers
MaxFields == 3
\* rows of the files loaded before the aggregates on their own
MaxAggRows == 3

(***************************************************************************)
(* Program constants.                                                      *)
(***************************************************************************)
\* "if total_rows % 1000 == 0" / "if len(documents) >= 1000"
BATCH_SIZE == 1000

\* sqlite_script.py RESERVED_WORDS
RESERVED_WORDS ==
  <<
    "abort", "action", "add", "after", "all", "alter", "analyze", "and", "as", "asc",
    "attach", "autoincrement", "before", "begin", "between", "by", "cascade", "case",
    "cast", "check", "collate", "column", "commit", "conflict", "constraint",
    "create", "cross", "current_date", "current_time", "current_timestamp",
    "database", "default", "deferrable", "deferred", "delete", "desc", "detach",
    "distinct", "drop", "each", "else", "end", "escape", "except", "exclusive",
    "exists", "explain", "fail", "for", "foreign", "from", "full", "glob", "group",
    "having", "if", "ignore", "immediate", "in", "index", "indexed", "initially",
    "inner", "insert", "instead", "intersect", "into", "is", "isnull", "join", "key",
    "left", "like", "limit", "match", "natural", "no", "not", "notnull", "null",
    "of", "offset", "on", "or", "order", "outer", "plan", "pragma", "primary",
    "query", "raise", "recursive", "references", "regexp", "reindex", "release",
    "rename", "replace", "restrict", "right", "rollback", "row", "savepoint",
    "select", "set", "table", "temp", "temporary", "then", "to", "transaction",
    "trigger", "union", "unique", "update", "using", "vacuum", "values", "view",
    "virtual", "when", "where", "with", "without"
  >>

(***************************************************************************)
(* Python string operations used by the scripts.                           *)
(***************************************************************************)
\* the characters of a string, as a set
Chars(s) == {SubSeq(s, i, i) : i \in 1..Len(s)}

Letters == Chars("abcdefghijklmnopqrstuvwxyzABCDEFGHIJKLMNOPQRSTUVWXYZ")
Digits == Chars("0123456789")

\* str.lower() on the ASCII capital letters
LowerOf ==
  "A" :> "a" @@ "B" :> "b" @@ "C" :> "c" @@ "D" :> "d" @@ "E" :> "e" @@
  "F" :> "f" @@ "G" :> "g" @@ "H" :> "h" @@ "I" :> "i" @@ "J" :> "j" @@
  "K" :> "k" @@ "L" :> "l" @@ "M" :> "m" @@ "N" :> "n" @@ "O" :> "o" @@
  "P" :> "p" @@ "Q" :> "q" @@ "R" :> "r" @@ "S" :> "s" @@ "T" :> "t" @@
  "U" :> "u" @@ "V" :> "v" @@ "W" :> "w" @@ "X" :> "x" @@ "Y" :> "y" @@ "Z" :> "z"

\* str.lower() on one character
LowerChar(c) == IF c \in DOMAIN LowerOf THEN LowerOf[c] ELSE c

RECURSIVE Lower(_)
\* str.lower()
Lower(s) == IF s = "" THEN "" ELSE LowerChar(Head(s)) \o Lower(Tail(s))

RECURSIVE CollapseSpaces(_)
\* another treatment of spaces, for comparison: every run of spaces becomes
\* one underscore
CollapseSpaces(s) ==
  IF s = "" THEN ""
  ELSE IF Head(s) = " "
       THEN (IF Len(s) > 1 /\ Head(Tail(s)) = " " THEN "" ELSE "_") \o CollapseSpaces(Tail(s))
       ELSE Head(s) \o CollapseSpaces(Tail(s))

RECURSIVE RemoveSpaces(_)
\* a different treatment of spaces, for comparison: s with every space
\* taken out
RemoveSpaces(s) ==
  IF s = "" THEN ""
  ELSE (IF Head(s) = " " THEN "" ELSE Head(s)) \o RemoveSpaces(Tail(s))

RECURSIVE ReplaceSpaces(_)
\* str.replace(' ', '_'): every single space character becomes one underscore
ReplaceSpaces(s) ==
  IF s = "" THEN ""
  ELSE (IF Head(s) = " " THEN "_" ELSE Head(s)) \o ReplaceSpaces(Tail(s))

\* s.startswith(p)
StartsWith(s, p) == Len(s) >= Len(p) /\ SubSeq(s, 1, Len(p)) = p
\* s.endswith(p)
EndsWith(s, p) == Len(s) >= Len(p) /\ SubSeq(s, Len(s) - Len(p) + 1, Len(s)) = p
\* "sub in s"
Contains(s, sub) ==
  \E i \in 1..(Len(s) - Len(sub) + 1) : SubSeq(s, i, i + Len(sub) - 1) = sub

\* the elements of a sequence
Range(f) == {f[i] : i \in DOMAIN f}

(***************************************************************************)
(* Column-name sanitizers (create_table, load_csv_to_database).            *)
(***************************************************************************)
\* "safe_col_name.lower() in [w.lower() for w in RESERVED_WORDS]"
ReservedLower == {Lower(RESERVED_WORDS[i]) : i \in 1..Len(RESERVED_WORDS)}
IsReserved(name) == Lower(name) \in ReservedLower

\* a different sanitizer, for comparison: the reserved-word test is made on
\* the name as written in the header, before it is lower-cased
SafeColNameTestedRaw(col_name) ==
  LET safe_col_name == ReplaceSpaces(Lower(col_name))
  IN  IF col_name \in ReservedLower THEN safe_col_name \o "_col" ELSE safe_col_name

\* sqlite: lower-case, replace spaces, append "_col" to a reserved word
SqliteSafeColName(col_name) ==
  LET safe_col_name == ReplaceSpaces(Lower(col_name))
  IN  IF IsReserved(safe_col_name) THEN safe_col_name \o "_col" ELSE safe_col_name

\* postgresql: lower-case, replace spaces (no reserved-word handling)
PgSafeColName(col_name) == ReplaceSpaces(Lower(col_name))

\* the storage names of a header, in header order
SqliteSafeColumnNames(header) ==
  [i \in 1..Len(header) |-> SqliteSafeColName(header[i])]

PgSafeColumnNames(header) == [i \in 1..Len(header) |-> PgSafeColName(header[i])]

(***************************************************************************)
(* The INSERT statement the loaders build from the header.                 *)
(***************************************************************************)
RECURSIVE InsertColumnsPlain(_, _, _)
\* a different column list, for comparison: the names lower-cased and with
\* underscores for spaces, and no reserved word looked for
InsertColumnsPlain(header, i, safe_column_names) ==
  IF i > Len(header) THEN safe_column_names
  ELSE InsertColumnsPlain(header, i + 1,
                          Append(safe_column_names, ReplaceSpaces(Lower(header[i]))))

RECURSIVE SqliteInsertColumns(_, _, _)
\* sqlite loader: "for col_name in header: ... safe_column_names.append(...)",
\* from the i-th name on; the list becomes the quoted column list of
\* INSERT INTO utenti (...)
SqliteInsertColumns(header, i, safe_column_names) ==
  IF i > Len(header) THEN safe_column_names
  ELSE LET lowered == ReplaceSpaces(Lower(header[i]))
           safe_col_name == IF Lower(lowered) \in ReservedLower
                            THEN lowered \o "_col" ELSE lowered
       IN  SqliteInsertColumns(header, i + 1, Append(safe_column_names, safe_col_name))

\* postgresql loader: [col.lower().replace(' ', '_') for col in header]
PgInsertColumns(header) == [i \in DOMAIN header |-> ReplaceSpaces(Lower(header[i]))]

\* ['?' for _ in header] / ['%s' for _ in header]
Placeholders(header, mark) == [i \in DOMAIN header |-> mark]

(***************************************************************************)
(* What the destinations accept (the statements the scripts send).         *)
(***************************************************************************)
\* no two names of the list are the same identifier (SQL identifiers are
\* compared without regard to case)
DistinctNames(names) ==
  \A i, j \in 1..Len(names) : i # j => Lower(names[i]) # Lower(names[j])

\* sqlite: CREATE TABLE utenti (id INTEGER PRIMARY KEY AUTOINCREMENT,
\* "c1" TEXT, ...): the quoted names are accepted whatever their
\* characters, and the statement fails on a duplicate column name.
SqliteCreateAccepted(cols) == DistinctNames(<<"id">> \o cols)

\* key words PostgreSQL reserves: not usable as an unquoted column name
PG_RESERVED ==
  { "all", "and", "any", "as", "asc", "case", "cast", "check", "collate", "column",
    "constraint", "create", "default", "desc", "distinct", "do", "else", "end",
    "except", "for", "foreign", "from", "grant", "group", "having", "in", "into",
    "limit", "not", "null", "offset", "on", "only", "or", "order", "primary",
    "references", "select", "table", "then", "to", "union", "unique", "user",
    "using", "when", "where", "with" }

\* an unquoted PostgreSQL identifier: a letter or underscore, then letters,
\* digits, underscores or dollar signs, and no reserved key word
PgIdentifier(name) ==
  /\ name # ""
  /\ Head(name) \in Letters \cup {"_"}
  /\ Chars(name) \subseteq Letters \cup Digits \cup {"_", "$"}
  /\ Lower(name) \notin PG_RESERVED

\* postgresql: CREATE TABLE utenti (id SERIAL PRIMARY KEY, c1 VARCHAR(255),
\* ...): the names are not quoted
PgCreateAccepted(cols) ==
  /\ \A i \in 1..Len(cols) : PgIdentifier(cols[i])
  /\ DistinctNames(<<"id">> \o cols)

\* cursor.execute(insert_sql, row): one parameter per placeholder, and there
\* is one placeholder per header column
InsertAccepted(header, row) == Len(row) = Len(header)

(***************************************************************************)
(* Field matchers: the loops that look for the column of the aggregate.    *)
(***************************************************************************)
NoMatch == [found |-> FALSE, name |-> ""]
Found(name) == [found |-> TRUE, name |-> name]

\* sqlite: "col_name == 'website' or 'website' in col_name or 'site' in
\* col_name or 'sito' in col_name"
SqliteQualifies(col) ==
  LET col_name == Lower(col)
  IN  \/ col_name = "website"
      \/ Contains(col_name, "website")
      \/ Contains(col_name, "site")
      \/ Contains(col_name, "sito")

\* postgresql: "col_name == 'email' or 'email' in col_name or 'mail' in col_name"
PgQualifies(col) ==
  LET col_name == Lower(col)
  IN  \/ col_name = "email"
      \/ Contains(col_name, "email")
      \/ Contains(col_name, "mail")

\* duckdb: "col_name == 'website' or 'site' in col_name or 'sito' in col_name"
DuckQualifies(col) ==
  LET col_name == Lower(col)
  IN  \/ col_name = "website"
      \/ Contains(col_name, "site")
      \/ Contains(col_name, "sito")

\* mongodb: "('subscription' in field_lower or 'iscrizione' in field_lower)
\* and ('date' in field_lower or 'data' in field_lower)"
MongoQualifies(field) ==
  LET field_lower == Lower(field)
  IN  /\ Contains(field_lower, "subscription") \/ Contains(field_lower, "iscrizione")
      /\ Contains(field_lower, "date") \/ Contains(field_lower, "data")

RECURSIVE SqliteScan(_, _)
\* "for col in columns: if ...: website_col = col[1]; break", from position i
SqliteScan(columns, i) ==
  IF i > Len(columns) THEN NoMatch
  ELSE IF SqliteQualifies(columns[i]) THEN Found(columns[i])
  ELSE SqliteScan(columns, i + 1)

\* another loop, for comparison: a column named exactly "email" is taken
\* before any column that only contains one of the substrings
PgScanExactFirst(columns, i) ==
  LET exact == {j \in i..Len(columns) : Lower(columns[j]) = "email"}
      hits  == {j \in i..Len(columns) : PgQualifies(columns[j])}
      First(S) == CHOOSE j \in S : \A k \in S : j <= k
  IN  IF exact # {} THEN Found(columns[First(exact)])
      ELSE IF hits # {} THEN Found(columns[First(hits)])
      ELSE NoMatch

RECURSIVE PgScanAll(_, _)
\* a different loop, for comparison: without the "break" the last qualifying
\* column is the one kept
PgScanAll(columns, i) ==
  IF i > Len(columns) THEN NoMatch
  ELSE LET later == PgScanAll(columns, i + 1)
       IN  IF later.found THEN later
           ELSE IF PgQualifies(columns[i]) THEN Found(columns[i])
           ELSE NoMatch

RECURSIVE PgScan(_, _)
PgScan(columns, i) ==
  IF i > Len(columns) THEN NoMatch
  ELSE IF PgQualifies(columns[i]) THEN Found(columns[i])
  ELSE PgScan(columns, i + 1)

RECURSIVE DuckScan(_, _)
DuckScan(columns, i) ==
  IF i > Len(columns) THEN NoMatch
  ELSE IF DuckQualifies(columns[i]) THEN Found(columns[i])
  ELSE DuckScan(columns, i + 1)

RECURSIVE MongoScan(_, _)
MongoScan(fields, i) ==
  IF i > Len(fields) THEN NoMatch
  ELSE IF MongoQualifies(fields[i]) THEN Found(fields[i])
  ELSE MongoScan(fields, i + 1)

\* the column each script's aggregate uses, given the listed columns
SqliteWebsiteCol(columns) == SqliteScan(columns, 1)
PgEmailCol(columns) == PgScan(columns, 1)
DuckWebsiteCol(columns) == DuckScan(columns, 1)
MongoDateField(fields) == MongoScan(fields, 1)

(***************************************************************************)
(* Predicates of the count queries.                                        *)
(***************************************************************************)
\* sqlite: LIKE 'https://%' (sqlite's LIKE ignores the case of ASCII letters)
SqliteLikeHttps(v) == StartsWith(Lower(v), "https://")
\* postgresql: LIKE '%.com'
PgLikeCom(v) == EndsWith(v, ".com")
\* duckdb: LIKE '%.info' OR LIKE '%.info/%'
DuckLikeInfo(v) == EndsWith(v, ".info") \/ Contains(v, ".info/")

(***************************************************************************)
(* mongodb: the documents built from the rows.                             *)
(***************************************************************************)
\* values of a document's fields: raw text, a datetime (midnight of a
\* calendar day), None, or the ObjectId the driver gives to "_id"
StrVal(s) == [t |-> "str", s |-> s, y |-> 0, m |-> 0, d |-> 0]
DateVal(y, m, d) == [t |-> "date", s |-> "", y |-> y, m |-> m, d |-> d]
NullVal == [t |-> "null", s |-> "", y |-> 0, m |-> 0, d |-> 0]
OidVal == [t |-> "oid", s |-> "", y |-> 0, m |-> 0, d |-> 0]

IsDigits(s) == Chars(s) \subseteq Digits
DigitOf ==
  "0" :> 0 @@ "1" :> 1 @@ "2" :> 2 @@ "3" :> 3 @@ "4" :> 4 @@ "5" :> 5 @@ "6" :> 6 @@
  "7" :> 7 @@ "8" :> 8 @@ "9" :> 9
DigitVal(c) == DigitOf[c]
RECURSIVE ToInt(_)
\* int(s) of a string of decimal digits
ToInt(s) ==
  IF s = "" THEN 0
  ELSE 10 * ToInt(SubSeq(s, 1, Len(s) - 1)) + DigitVal(SubSeq(s, Len(s), Len(s)))

IsLeap(y) == (y % 4 = 0 /\ y % 100 # 0) \/ y % 400 = 0
DaysInMonth(y, m) ==
  IF m = 2 THEN (IF IsLeap(y) THEN 29 ELSE 28)
  ELSE IF m \in {4, 6, 9, 11} THEN 30 ELSE 31

\* the month field of the format: 1[0-2] | 0[1-9] | [1-9]
MonthText(s) ==
  \/ Len(s) = 2 /\ Head(s) = "1" /\ SubSeq(s, 2, 2) \in {"0", "1", "2"}
  \/ Len(s) = 2 /\ Head(s) = "0" /\ SubSeq(s, 2, 2) \in Digits \ {"0"}
  \/ Len(s) = 1 /\ s \in Digits \ {"0"}
\* the day field of the format: 3[01] | [12]\d | 0[1-9] | [1-9] | " "[1-9]
DayText(s) ==
  \/ Len(s) = 2 /\ Head(s) = "3" /\ SubSeq(s, 2, 2) \in {"0", "1"}
  \/ Len(s) = 2 /\ Head(s) \in {"1", "2"} /\ SubSeq(s, 2, 2) \in Digits
  \/ Len(s) = 2 /\ Head(s) \in {"0", " "} /\ SubSeq(s, 2, 2) \in Digits \ {"0"}
  \/ Len(s) = 1 /\ s \in Digits \ {"0"}

\* datetime.strptime(value, "%Y-%m-%d"): four digits, "-", month, "-", day,
\* nothing left over, and a day that exists; ok = FALSE stands for ValueError
Strptime(value) ==
  LET bad == [ok |-> FALSE, y |-> 0, m |-> 0, d |-> 0]
      ml  == IF Len(value) >= 7 /\ SubSeq(value, 7, 7) = "-" THEN 1 ELSE 2
      ys  == SubSeq(value, 1, 4)
      ms  == SubSeq(value, 6, 5 + ml)
      ds  == SubSeq(value, 7 + ml, Len(value))
      dn  == IF Head(ds) = " " THEN Tail(ds) ELSE ds
  IN  IF /\ Len(value) >= 8
         /\ IsDigits(ys)
         /\ SubSeq(value, 5, 5) = "-"
         /\ SubSeq(value, 6 + ml, 6 + ml) = "-"
         /\ MonthText(ms)
         /\ DayText(ds)
         /\ ToInt(ys) >= 1
         /\ ToInt(dn) <= DaysInMonth(ToInt(ys), ToInt(ms))
      THEN [ok |-> TRUE, y |-> ToInt(ys), m |-> ToInt(ms), d |-> ToInt(dn)]
      ELSE bad

\* "'date' in col_name.lower() or 'data' in col_name.lower()"
IsDateColumn(col_name) ==
  Contains(Lower(col_name), "date") \/ Contains(Lower(col_name), "data")

\* a different conversion, for comparison: an empty text is handed to
\* strptime like any other and so stays as it is
FieldValueKeepingEmpty(col_name, value) ==
  IF IsDateColumn(col_name)
  THEN LET p == Strptime(value)
       IN  IF value # "" /\ p.ok THEN DateVal(p.y, p.m, p.d) ELSE StrVal(value)
  ELSE StrVal(value)

\* the value stored for the text of a row's field
FieldValue(col_name, value) ==
  IF IsDateColumn(col_name)
  THEN IF value = "" THEN NullVal
       ELSE LET p == Strptime(value)
            IN  IF p.ok THEN DateVal(p.y, p.m, p.d) ELSE StrVal(value)
  ELSE StrVal(value)

\* doc[k] = v on a dict kept as the list of its items, in insertion order
DocPut(doc, k, v) ==
  IF \E j \in 1..Len(doc) : doc[j].k = k
  THEN [j \in 1..Len(doc) |-> IF doc[j].k = k THEN [k |-> k, v |-> v] ELSE doc[j]]
  ELSE Append(doc, [k |-> k, v |-> v])

RECURSIVE BuildDoc(_, _, _, _)
\* "for i, col_name in enumerate(header): if i < len(row): ...", from the
\* i-th column on (i counts from 1 here)
BuildDoc(header, row, i, doc) ==
  IF i > Len(header) THEN doc
  ELSE IF i <= Len(row)
       THEN BuildDoc(header, row, i + 1,
                     DocPut(doc, header[i], FieldValue(header[i], row[i])))
       ELSE BuildDoc(header, row, i + 1, doc)

\* a different document, for comparison: keyed by the sanitized names
MakeDocSanitized(header, row) == BuildDoc(PgSafeColumnNames(header), row, 1, <<>>)

\* the document of one row
MakeDoc(header, row) == BuildDoc(header, row, 1, <<>>)

\* insert_many gives every document an "_id", stored as its first field
StoredDoc(doc) == <<[k |-> "_id", v |-> OidVal]>> \o doc

\* the names of a document's fields, in order
DocFields(doc) == [j \in 1..Len(doc) |-> doc[j].k]
DocHas(doc, k) == \E j \in 1..Len(doc) : doc[j].k = k
DocGet(doc, k) == doc[CHOOSE j \in 1..Len(doc) : doc[j].k = k].v

\* lexicographic comparison of calendar days
DayLE(y1, m1, d1, y2, m2, d2) ==
  \/ y1 < y2
  \/ y1 = y2 /\ m1 < m2
  \/ y1 = y2 /\ m1 = m2 /\ d1 <= d2

\* a different range, for comparison: "$gt" and "$lt" on the two midnights
In2020Exclusive(v) ==
  /\ v.t = "date"
  /\ ~DayLE(v.y, v.m, v.d, 2020, 1, 1)
  /\ ~DayLE(2020, 12, 31, v.y, v.m, v.d)

\* {"$gte": datetime(2020, 1, 1), "$lte": datetime(2020, 12, 31, 23, 59, 59)}
\* on a stored value: only datetimes compare with datetimes, and a stored
\* datetime is the midnight of its day
In2020(v) ==
  /\ v.t = "date"
  /\ DayLE(2020, 1, 1, v.y, v.m, v.d)
  /\ DayLE(v.y, v.m, v.d, 2020, 12, 31)

(***************************************************************************)
(* Bags of rows and documents.                                             *)
(***************************************************************************)
\* the bag of the elements of a sequence
SeqToBag(seq) ==
  [x \in Range(seq) |-> Cardinality({i \in DOMAIN seq : seq[i] = x})]

\* number of elements of bag B that are in set S: SELECT COUNT(*) ... WHERE
CountWhere(B, S) ==
  BagCardinality([x \in DOMAIN B \cap S |-> B[x]])

\* Long lists (the data rows of a file, the documents buffer) are kept
\* run-length encoded: a sequence of runs [item, times], equal neighbours
\* merged. The operators below are the list operations on that encoding.
RECURSIVE RunsLen(_)
\* len(list)
RunsLen(runs) ==
  IF runs = <<>> THEN 0 ELSE runs[1].times + RunsLen(Tail(runs))

RECURSIVE RunsAt(_, _)
\* list[i-1]: the i-th element, 1 <= i <= len(list)
RunsAt(runs, i) ==
  IF i <= runs[1].times THEN runs[1].item ELSE RunsAt(Tail(runs), i - runs[1].times)

\* list.append(x)
RunsAppend(runs, x) ==
  IF runs # <<>> /\ runs[Len(runs)].item = x
  THEN [runs EXCEPT ![Len(runs)].times = @ + 1]
  ELSE Append(runs, [item |-> x, times |-> 1])

RECURSIVE RunsPrefix(_, _)
\* list[:j]
RunsPrefix(runs, j) ==
  IF j = 0 \/ runs = <<>> THEN <<>>
  ELSE IF j <= runs[1].times THEN <<[item |-> runs[1].item, times |-> j]>>
  ELSE <<runs[1]>> \o RunsPrefix(Tail(runs), j - runs[1].times)

RECURSIVE RunsBag(_)
\* the bag of the elements of the list
RunsBag(runs) ==
  IF runs = <<>> THEN EmptyBag
  ELSE [x \in {runs[1].item} |-> runs[1].times] (+) RunsBag(Tail(runs))

\* the list of the elements of a sequence
RunsOf(seq) == [i \in 1..Len(seq) |-> [item |-> seq[i], times |-> 1]]

(***************************************************************************)
(* Inputs: the CSV files and the prior contents of the destination.        *)
(***************************************************************************)
Variants == {"sqlite", "postgres", "mongo", "duckdb"}

HeaderPool ==
  { <<"Email", "Subscription Date", "Website">>,
    <<"Index", "Phone 1", "Name">>,
    <<"Select", "select_col", "Website">>,
    <<"Name", "Email Address", "Sign-up Date">> }

\* rows with one field per header column
FullRows ==
  { <<"a@x.com", "2020-06-15", "https://a.info">>,
    <<"b@x.org", "2019-12-31", "http://b.com/x">> }
\* a row shorter than the header and a row longer than the header
RaggedRows ==
  { <<"d@x.com">>,
    <<"e@x.com", "2020-12-31", "https://e.org", "extra">> }
RowPool == FullRows \cup RaggedRows

\* sequences over S of length 0..n
SeqsUpTo(S, n) == UNION {[1..k -> S] : k \in 0..n}

\* A source file: exists (os.path.exists), empty (no record at all, not even
\* a header), its header, its data rows and their number n.
MissingSource ==
  [exists |-> FALSE, empty |-> TRUE, header |-> <<>>, n |-> 0, data |-> <<>>]
EmptySource ==
  [exists |-> TRUE, empty |-> TRUE, header |-> <<>>, n |-> 0, data |-> <<>>]
\* small files: every list of at most MaxSmallRows pool rows under every header
SmallSources ==
  { [exists |-> TRUE, empty |-> FALSE, header |-> h, n |-> Len(p), data |-> RunsOf(p)] :
      h \in HeaderPool, p \in SeqsUpTo(RowPool, MaxSmallRows) }
\* sizes around the batch boundaries
BigSizes ==
  { BATCH_SIZE - 1, BATCH_SIZE, MaxBatches * BATCH_SIZE, MaxBatches * BATCH_SIZE + 1 }
\* large files: k - 1 times one full row, then the other one
BigSources ==
  { [exists |-> TRUE, empty |-> FALSE,
     header |-> <<"Email", "Subscription Date", "Website">>, n |-> k,
     data |-> <<[item |-> <<"a@x.com", "2020-06-15", "https://a.info">>, times |-> k - 1],
                [item |-> <<"b@x.org", "2019-12-31", "http://b.com/x">>, times |-> 1]>>] :
      k \in BigSizes }
Sources == {MissingSource, EmptySource} \cup SmallSources \cup BigSources

\* the i-th data row of source s (1 <= i <= s.n)
Row(s, i) == RunsAt(s.data, i)
\* all data rows have as many fields as the header
Uniform(s) == \A i \in 1..Len(s.data) : Len(s.data[i].item) = Len(s.header)

\* The destination utenti: whether it exists, its declared columns (none for
\* a collection), the bag of its rows or documents, and the first document
\* of a collection (<<>> when there is none): find_one() is the only read
\* that depends on the order of the documents.
NoTable == [exists |-> FALSE, cols |-> <<>>, rows |-> EmptyBag, first |-> <<>>]
EmptyTable(cols) == [exists |-> TRUE, cols |-> cols, rows |-> EmptyBag, first |-> <<>>]

\* what an earlier load of another file left in the destination
OldTable(vr) ==
  IF vr = "mongo"
  THEN LET doc == StoredDoc(<<[k |-> "Subscription Date", v |-> DateVal(2020, 1, 1)]>>)
       IN  [exists |-> TRUE, cols |-> <<>>, rows |-> SetToBag({doc}), first |-> doc]
  ELSE [exists |-> TRUE, cols |-> <<"email", "website">>,
        rows |-> SetToBag({<<"old@x.com", "https://old.info">>}), first |-> <<>>]

VARIABLES
  variant,     \* which of the four scripts runs
  src,         \* the CSV file CSV_FILE
  run,         \* number of the current run of main()
  pc,          \* position of main()
  conn,        \* the connection: "none", "open", "closed"
  db,          \* committed contents of the destination
  pending,     \* bag of the rows inserted and not yet committed
  txOpen,      \* a transaction is open on the connection
  header,      \* the header read by the current phase
  total_rows,  \* total_rows of the loader
  documents,   \* documents of load_csv_to_mongodb (the batch being built)
  rows_loaded, \* return value of the loader (-1 before it returns)
  agg,         \* aggregate phase: returned count (-1 before), matched
               \* field, number of count queries issued
  out,         \* lines printed on stdout
  errors,      \* phases whose failure was logged with logger.error
  failedAt,    \* number of the data row whose insertion failed (0: none)
  fileOpen,    \* the loader holds CSV_FILE open ("with open(csv_file ...) as f")
  envFault,    \* the phase in which the environment (connection, server,
               \* disk) made an operation fail in this run ("none": no such
               \* failure; what the statements reject is no such failure)
  prev,        \* results of the previous run
  fn           \* argument and result of a function evaluated on its own

vars == <<variant, src, run, pc, conn, db, pending, txOpen, header, total_rows,
          documents, rows_loaded, agg, out, errors, failedAt, envFault, fileOpen, prev, fn>>

NoAgg == [count |-> -1, match |-> NoMatch, queries |-> 0]
NoPrev == [ok |-> FALSE, rows |-> -1, count |-> -1]
FnIdle == [op |-> "none", arg |-> <<>>, res |-> <<>>]

\* the locals of a run before main() starts
FreshRun ==
  /\ pc = "check_source"
  /\ conn = "none"
  /\ pending = EmptyBag
  /\ txOpen = FALSE
  /\ header = <<>>
  /\ total_rows = 0
  /\ documents = <<>>
  /\ rows_loaded = -1
  /\ agg = NoAgg
  /\ out = <<>>
  /\ errors = <<>>
  /\ failedAt = 0
  /\ envFault = "none"
  /\ fileOpen = FALSE

Init ==
  /\ variant \in Variants
  /\ src \in Sources
  \* duckdb's CSV reader is given files with rows of one length only
  /\ variant = "duckdb" => Uniform(src)
  /\ run = 1
  /\ db \in {NoTable, OldTable(variant)}
  /\ prev = NoPrev
  /\ fn = FnIdle
  /\ FreshRun

(***************************************************************************)
(* main(): the phases before the load.                                     *)
(***************************************************************************)
\* logger.error in the function where phase `what` failed
Logged(what) == errors' = Append(errors, what)

\* a different start of main(), for comparison: the file is not looked for
\* and the first phase is entered whatever the file system holds
CheckSourceSkipped ==
  /\ pc = "check_source"
  /\ pc' = IF variant = "mongo" THEN "connect" ELSE "read_header"
  /\ UNCHANGED errors
  /\ UNCHANGED <<variant, src, run, conn, db, pending, txOpen, header, total_rows,
                 documents, rows_loaded, agg, out, failedAt, envFault, fileOpen, prev, fn>>

\* "if not os.path.exists(CSV_FILE): logger.error(...); return"
CheckSource ==
  /\ pc = "check_source"
  /\ IF src.exists
     THEN /\ pc' = IF variant = "mongo" THEN "connect" ELSE "read_header"
          /\ UNCHANGED errors
     ELSE /\ pc' = "done"
          /\ Logged("source_missing")
  /\ UNCHANGED <<variant, src, run, conn, db, pending, txOpen, header, total_rows,
                 documents, rows_loaded, agg, out, failedAt, envFault, fileOpen, prev, fn>>

\* a different header reader, for comparison: a file without any record is
\* answered with an empty header instead of an error
ReadHeaderLenient ==
  /\ pc = "read_header"
  /\ header' = IF variant = "sqlite" \/ src.empty THEN header ELSE src.header
  /\ pc' = "connect"
  /\ UNCHANGED errors
  /\ UNCHANGED <<variant, src, run, conn, db, pending, txOpen, total_rows,
                 documents, rows_loaded, agg, out, failedAt, envFault, fileOpen, prev, fn>>

\* get_csv_column_count / get_csv_header: next(csv_reader) raises
\* StopIteration on a file without any record. The sqlite script keeps the
\* number of columns only and reads the header again later.
ReadHeader ==
  /\ pc = "read_header"
  /\ IF src.empty
     THEN /\ Logged("read_header")
          /\ pc' = "except"
          /\ UNCHANGED header
     ELSE /\ header' = IF variant = "sqlite" THEN header ELSE src.header
          /\ pc' = "connect"
          /\ UNCHANGED errors
  /\ UNCHANGED <<variant, src, run, conn, db, pending, txOpen, total_rows,
                 documents, rows_loaded, agg, out, failedAt, envFault, fileOpen, prev, fn>>

\* create_connection / psycopg2.connect / connect_to_mongodb; the
\* postgresql script connects inside main() and logs no error of its own
Connect ==
  /\ pc = "connect"
  /\ \E ok \in BOOLEAN :
       IF ok
       THEN /\ conn' = "open"
            /\ UNCHANGED envFault
            /\ pc' = CASE variant \in {"sqlite", "postgres"} -> "create_table"
                       [] variant = "mongo" -> "drop_collection"
                       [] OTHER -> "load_duckdb"
            /\ UNCHANGED errors
       ELSE /\ conn' = conn
            /\ pc' = "except"
            /\ envFault' = "connect"
            /\ IF variant = "postgres" THEN UNCHANGED errors ELSE Logged("connect")
  /\ UNCHANGED <<variant, src, run, db, pending, txOpen, header, total_rows,
                 documents, rows_loaded, agg, out, failedAt, fileOpen, prev, fn>>

\* a different create_table, for comparison: the error is logged and not
\* raised again, so main() goes on to the load
SqliteCreateTableSwallowing ==
  /\ pc = "create_table"
  /\ variant = "sqlite"
  /\ \E fault \in {"none", "drop", "create"} :
       LET cols == SqliteSafeColumnNames(src.header)
       IN  IF fault = "drop"
           THEN /\ db' = db
                /\ envFault' = "create_table"
                /\ Logged("create_table")
                /\ pc' = "load_begin"
           ELSE IF fault = "create" \/ ~SqliteCreateAccepted(cols)
           THEN /\ db' = NoTable
                /\ envFault' = IF fault = "create" THEN "create_table" ELSE envFault
                /\ Logged("create_table")
                /\ pc' = "load_begin"
           ELSE /\ db' = EmptyTable(cols)
                /\ pc' = "load_begin"
                /\ UNCHANGED <<errors, envFault>>
  /\ UNCHANGED <<variant, src, run, conn, pending, txOpen, header, total_rows,
                 documents, rows_loaded, agg, out, failedAt, fileOpen, prev, fn>>

\* sqlite create_table: DROP TABLE IF EXISTS, the header read again from
\* CSV_FILE, CREATE TABLE with the sanitized names, commit. The statements
\* take effect one by one (the driver opens no transaction for them): a
\* failing CREATE leaves the table dropped.
SqliteCreateTable ==
  /\ pc = "create_table"
  /\ variant = "sqlite"
  /\ \E fault \in {"none", "drop", "create"} :
       LET cols == SqliteSafeColumnNames(src.header)
       IN  IF fault = "drop"
           THEN /\ db' = db
                /\ envFault' = "create_table"
                /\ Logged("create_table")
                /\ pc' = "except"
           ELSE IF fault = "create" \/ ~SqliteCreateAccepted(cols)
           THEN /\ db' = NoTable
                /\ envFault' = IF fault = "create" THEN "create_table" ELSE envFault
                /\ Logged("create_table")
                /\ pc' = "except"
           ELSE /\ db' = EmptyTable(cols)
                /\ pc' = "load_begin"
                /\ UNCHANGED <<errors, envFault>>
  /\ UNCHANGED <<variant, src, run, conn, pending, txOpen, header, total_rows,
                 documents, rows_loaded, agg, out, failedAt, fileOpen, prev, fn>>

\* postgresql create_table: DROP and CREATE run in one transaction that
\* conn.commit() ends; when a statement fails nothing is committed and the
\* aborted transaction stays open until the connection is closed.
PgCreateTable ==
  /\ pc = "create_table"
  /\ variant = "postgres"
  /\ \E fault \in BOOLEAN :
       LET cols == PgSafeColumnNames(header)
       IN  IF fault \/ ~PgCreateAccepted(cols)
           THEN /\ db' = db
                /\ txOpen' = TRUE
                /\ envFault' = IF fault THEN "create_table" ELSE envFault
                /\ Logged("create_table")
                /\ pc' = "except"
           ELSE /\ db' = EmptyTable(cols)
                /\ txOpen' = FALSE
                /\ pc' = "load_begin"
                /\ UNCHANGED <<errors, envFault>>
  /\ UNCHANGED <<variant, src, run, conn, pending, header, total_rows,
                 documents, rows_loaded, agg, out, failedAt, fileOpen, prev, fn>>

\* a different drop_collection, for comparison: the collection is looked for
\* and never found, so nothing is dropped
DropCollectionSkipped ==
  /\ pc = "drop_collection"
  /\ \E fault \in BOOLEAN :
       IF fault
       THEN /\ db' = db
            /\ envFault' = "drop_collection"
            /\ Logged("drop_collection")
            /\ pc' = "except"
       ELSE /\ db' = db
            /\ pc' = "load_begin"
            /\ UNCHANGED <<errors, envFault>>
  /\ UNCHANGED <<variant, src, run, conn, pending, txOpen, header, total_rows,
                 documents, rows_loaded, agg, out, failedAt, fileOpen, prev, fn>>

\* mongodb drop_collection: "if COLLECTION_NAME in db.list_collection_names():
\* db[COLLECTION_NAME].drop()"
DropCollection ==
  /\ pc = "drop_collection"
  /\ \E fault \in BOOLEAN :
       IF fault
       THEN /\ db' = db
            /\ envFault' = "drop_collection"
            /\ Logged("drop_collection")
            /\ pc' = "except"
       ELSE /\ db' = IF db.exists THEN NoTable ELSE db
            /\ pc' = "load_begin"
            /\ UNCHANGED <<errors, envFault>>
  /\ UNCHANGED <<variant, src, run, conn, pending, txOpen, header, total_rows,
                 documents, rows_loaded, agg, out, failedAt, fileOpen, prev, fn>>

(***************************************************************************)
(* The loaders.                                                            *)
(***************************************************************************)
\* committed contents after conn.commit(): the pending rows become durable
Committed(table, rows) == [table EXCEPT !.rows = table.rows (+) rows]

\* a collection after insert_many(docs), each document stored with its "_id"
Inserted(coll, docs) ==
  LET stored == [i \in 1..Len(docs) |->
                   [item |-> StoredDoc(docs[i].item), times |-> docs[i].times]]
  IN  IF docs = <<>> THEN coll
      ELSE [exists |-> TRUE, cols |-> <<>>,
            rows |-> coll.rows (+) RunsBag(stored),
            first |-> IF coll.first = <<>> THEN stored[1].item ELSE coll.first]

\* a different buffer test, for comparison: the buffer is written when it
\* holds more than BATCH_SIZE documents
BufferOverfull(docs) == RunsLen(docs) > BATCH_SIZE

\* a different batch test, for comparison: one row too late
BatchFullLate(n) == n % (BATCH_SIZE + 1) = 0

\* "if total_rows % 1000 == 0" after the increment: the batch is full
BatchFull(n) == n % BATCH_SIZE = 0
\* "if len(documents) >= 1000"
BufferFull(docs) == RunsLen(docs) >= BATCH_SIZE

\* a different way out, for comparison: the loader logs the error and
\* returns the number of rows committed so far instead of raising
LoadRaisesWithCount ==
  /\ Logged("load")
  /\ pc' = "except"
  /\ total_rows' = 0
  /\ documents' = <<>>
  /\ fileOpen' = FALSE
  /\ rows_loaded' = BagCardinality(db.rows)

\* the loader leaves by raising: the "with" block closes the file, the
\* locals are gone, main() gets no value
LoadRaises ==
  /\ Logged("load")
  /\ pc' = "except"
  /\ total_rows' = 0
  /\ documents' = <<>>
  /\ fileOpen' = FALSE
  /\ UNCHANGED rows_loaded

\* a different start of the loader, for comparison: no BEGIN TRANSACTION is
\* sent before the row loop
LoadBeginWithoutBegin ==
  /\ pc = "load_begin"
  /\ IF src.empty
     THEN /\ LoadRaises
          /\ UNCHANGED <<header, txOpen>>
     ELSE /\ header' = IF variant = "postgres" THEN header ELSE src.header
          /\ txOpen' = txOpen
          /\ total_rows' = 0
          /\ documents' = <<>>
          /\ fileOpen' = TRUE
          /\ pc' = "load_rows"
          /\ UNCHANGED <<errors, rows_loaded>>
  /\ UNCHANGED <<variant, src, run, conn, db, pending, agg, out, failedAt, envFault, prev, fn>>

\* load_csv_to_database / load_csv_to_mongodb up to the row loop: the file is
\* opened and its header read (sqlite, mongodb) or skipped (postgresql), the
\* INSERT statement is built, and sqlite opens its first transaction.
LoadBegin ==
  /\ pc = "load_begin"
  /\ IF src.empty
     THEN /\ LoadRaises
          /\ UNCHANGED <<header, txOpen>>
     ELSE /\ header' = IF variant = "postgres" THEN header ELSE src.header
          /\ txOpen' = IF variant = "sqlite" THEN TRUE ELSE txOpen
          /\ total_rows' = 0
          /\ documents' = <<>>
          /\ fileOpen' = TRUE
          /\ pc' = "load_rows"
          /\ UNCHANGED <<errors, rows_loaded>>
  /\ UNCHANGED <<variant, src, run, conn, db, pending, agg, out, failedAt, envFault, prev, fn>>

\* One iteration of "for row in csv_reader" in the sqlite and postgresql
\* loaders: INSERT, count, commit every BATCH_SIZE rows (sqlite then opens the
\* next transaction). A failing INSERT (wrong number of values, or an error
\* of the server) ends the loop: sqlite rolls the transaction back in the
\* loader's except block, postgresql leaves it open and aborted.
SqlLoadRow ==
  /\ pc = "load_rows"
  /\ variant \in {"sqlite", "postgres"}
  /\ total_rows < src.n
  /\ \E fault \in BOOLEAN :
       LET row == Row(src, total_rows + 1)
       IN  IF fault \/ ~InsertAccepted(header, row)
           THEN /\ failedAt' = total_rows + 1
                /\ envFault' = IF fault THEN "load" ELSE envFault
                /\ pending' = IF variant = "sqlite" THEN EmptyBag ELSE pending
                /\ txOpen' = (variant = "postgres")
                /\ db' = db
                /\ LoadRaises
           ELSE /\ total_rows' = total_rows + 1
                /\ IF BatchFull(total_rows + 1)
                   THEN /\ db' = Committed(db, pending (+) SetToBag({row}))
                        /\ pending' = EmptyBag
                        /\ txOpen' = (variant = "sqlite")
                   ELSE /\ db' = db
                        /\ pending' = pending (+) SetToBag({row})
                        /\ txOpen' = TRUE
                /\ UNCHANGED <<pc, errors, documents, rows_loaded, failedAt, envFault,
                               fileOpen>>
  /\ UNCHANGED <<variant, src, run, conn, header, agg, out, prev, fn>>

\* a different end of the loader, for comparison: "return total_rows"
\* without the final conn.commit()
SqlLoadEndUncommitted ==
  /\ pc = "load_rows"
  /\ variant \in {"sqlite", "postgres"}
  /\ total_rows = src.n
  /\ rows_loaded' = total_rows
  /\ total_rows' = 0
  /\ fileOpen' = FALSE
  /\ pc' = "aggregate"
  /\ UNCHANGED <<variant, src, run, conn, db, pending, txOpen, header, documents,
                 agg, out, errors, failedAt, envFault, prev, fn>>

\* End of the stream in the sqlite and postgresql loaders: the final
\* conn.commit() and "return total_rows".
SqlLoadEnd ==
  /\ pc = "load_rows"
  /\ variant \in {"sqlite", "postgres"}
  /\ total_rows = src.n
  /\ db' = Committed(db, pending)
  /\ pending' = EmptyBag
  /\ txOpen' = FALSE
  /\ rows_loaded' = total_rows
  /\ total_rows' = 0
  /\ fileOpen' = FALSE
  /\ pc' = "aggregate"
  /\ UNCHANGED <<variant, src, run, conn, header, documents, agg, out, errors,
                 failedAt, envFault, prev, fn>>

\* insert_many(docs) that raises: the documents are written in order, so a
\* prefix of them (none, some or all) is in the collection
PartlyInserted(coll, docs) ==
  {Inserted(coll, RunsPrefix(docs, j)) : j \in 0..RunsLen(docs)}

\* One iteration of the mongodb loader: build the document, append it, count
\* it, and write the buffer with insert_many when it holds BATCH_SIZE
\* documents.
MongoLoadRow ==
  /\ pc = "load_rows"
  /\ variant = "mongo"
  /\ total_rows < src.n
  /\ LET docs == RunsAppend(documents, MakeDoc(header, Row(src, total_rows + 1)))
     IN  IF BufferFull(docs)
         THEN \E fault \in BOOLEAN :
                IF fault
                THEN /\ db' \in PartlyInserted(db, docs)
                     /\ failedAt' = total_rows + 1
                     /\ envFault' = "load"
                     /\ LoadRaises
                ELSE /\ db' = Inserted(db, docs)
                     /\ documents' = <<>>
                     /\ total_rows' = total_rows + 1
                     /\ UNCHANGED <<pc, errors, rows_loaded, failedAt, envFault, fileOpen>>
         ELSE /\ documents' = docs
              /\ total_rows' = total_rows + 1
              /\ UNCHANGED <<db, pc, errors, rows_loaded, failedAt, envFault, fileOpen>>
  /\ UNCHANGED <<variant, src, run, conn, pending, txOpen, header, agg, out, prev, fn>>

\* a different end of the mongodb loader, for comparison: insert_many is
\* called without the "if documents:" test, and the driver raises on an
\* empty list
MongoLoadEndUnguarded ==
  /\ pc = "load_rows"
  /\ variant = "mongo"
  /\ total_rows = src.n
  /\ \E fault \in BOOLEAN :
       IF fault \/ documents = <<>>
       THEN /\ db' \in PartlyInserted(db, documents)
            /\ failedAt' = total_rows
            /\ envFault' = IF fault THEN "load" ELSE envFault
            /\ LoadRaises
       ELSE /\ db' = Inserted(db, documents)
            /\ rows_loaded' = total_rows
            /\ total_rows' = 0
            /\ documents' = <<>>
            /\ fileOpen' = FALSE
            /\ pc' = "aggregate"
            /\ UNCHANGED <<errors, failedAt, envFault>>
  /\ UNCHANGED <<variant, src, run, conn, pending, txOpen, header, agg, out, prev, fn>>

\* End of the stream in the mongodb loader: "if documents:
\* collection.insert_many(documents)" and "return total_rows".
MongoLoadEnd ==
  /\ pc = "load_rows"
  /\ variant = "mongo"
  /\ total_rows = src.n
  /\ \E fault \in BOOLEAN :
       IF fault /\ documents # <<>>
       THEN /\ db' \in PartlyInserted(db, documents)
            /\ failedAt' = total_rows
            /\ envFault' = "load"
            /\ LoadRaises
       ELSE /\ db' = Inserted(db, documents)
            /\ rows_loaded' = total_rows
            /\ total_rows' = 0
            /\ documents' = <<>>
            /\ fileOpen' = FALSE
            /\ pc' = "aggregate"
            /\ UNCHANGED <<errors, failedAt, envFault>>
  /\ UNCHANGED <<variant, src, run, conn, pending, txOpen, header, agg, out, prev, fn>>

\* the bag of all data rows of a source
AllRows(s) == RunsBag(s.data)

\* duckdb load_csv_to_database: a view over the file, its row count, then
\* DROP TABLE IF EXISTS utenti, CREATE TABLE utenti AS SELECT * FROM the
\* view, and the row count of the table, which is returned. Every statement
\* takes effect on its own.
DuckLoad ==
  /\ pc = "load_duckdb"
  /\ \E fault \in {"none", "view", "create"} :
       CASE fault = "view" ->
              /\ db' = db
              /\ envFault' = "load"
              /\ LoadRaises
         [] fault = "create" ->
              /\ db' = NoTable
              /\ envFault' = "load"
              /\ LoadRaises
         [] OTHER ->
              /\ db' = [exists |-> TRUE, cols |-> src.header, rows |-> AllRows(src),
                        first |-> <<>>]
              /\ rows_loaded' = BagCardinality(AllRows(src))
              /\ pc' = "aggregate"
              /\ UNCHANGED <<errors, total_rows, documents, envFault, fileOpen>>
  /\ UNCHANGED <<variant, src, run, conn, pending, txOpen, header, agg, out,
                 failedAt, prev, fn>>

(***************************************************************************)
(* The aggregates.                                                         *)
(***************************************************************************)
\* position of column `name` among the declared columns
ColumnIndex(cols, name) == CHOOSE i \in 1..Len(cols) : cols[i] = name

\* what the connection sees: committed rows and its own pending rows
Visible == db.rows (+) pending

\* sqlite: PRAGMA table_info(utenti) lists the id column and the declared ones
SqliteColumns == IF db.exists THEN <<"id">> \o db.cols ELSE <<>>
\* postgresql: the column_name rows of information_schema.columns
PgColumns == IF db.exists THEN <<"id">> \o db.cols ELSE <<>>
\* duckdb: PRAGMA table_info(utenti)
DuckColumns == db.cols
\* a different listing, for comparison: the fields of a document that has
\* the most fields of all
MongoFieldsOfLongest ==
  IF DOMAIN db.rows = {} THEN <<>>
  ELSE DocFields(CHOOSE d \in DOMAIN db.rows : \A e \in DOMAIN db.rows : Len(e) <= Len(d))

\* mongodb: the fields of collection.find_one(), none on an empty collection
MongoFields == DocFields(db.first)

\* the field the running script's matcher finds
FieldMatch ==
  CASE variant = "sqlite" -> SqliteWebsiteCol(SqliteColumns)
    [] variant = "postgres" -> PgEmailCol(PgColumns)
    [] variant = "duckdb" -> DuckWebsiteCol(DuckColumns)
    [] OTHER -> MongoDateField(MongoFields)

\* the result of the running script's count query on field `name`
CountQuery(name) ==
  CASE variant = "sqlite" ->
         CountWhere(Visible, {r \in DOMAIN Visible : SqliteLikeHttps(r[ColumnIndex(db.cols, name)])})
    [] variant = "postgres" ->
         CountWhere(Visible, {r \in DOMAIN Visible : PgLikeCom(r[ColumnIndex(db.cols, name)])})
    [] variant = "duckdb" ->
         CountWhere(Visible, {r \in DOMAIN Visible : DuckLikeInfo(r[ColumnIndex(db.cols, name)])})
    [] OTHER ->
         CountWhere(db.rows, {doc \in DOMAIN db.rows : DocHas(doc, name) /\ In2020(DocGet(doc, name))})

\* a different aggregate, for comparison: a missing field is raised as an
\* error instead of being answered with 0
AggregateStrict ==
  /\ pc = "aggregate"
  /\ \E fault \in {"none", "list", "count"} :
       LET m == FieldMatch
       IN  IF fault = "list" \/ (fault = "count" /\ m.found)
           THEN /\ agg' = [count |-> -1, match |-> IF fault = "list" THEN NoMatch ELSE m,
                           queries |-> IF fault = "list" THEN 0 ELSE 1]
                /\ errors' = Append(errors, "aggregate")
                /\ envFault' = "aggregate"
                /\ pc' = "except"
           ELSE IF ~m.found
           THEN /\ agg' = [count |-> -1, match |-> NoMatch, queries |-> 0]
                /\ errors' = Append(errors, "not_found")
                /\ pc' = "except"
                /\ UNCHANGED envFault
           ELSE /\ agg' = [count |-> CountQuery(m.name), match |-> m, queries |-> 1]
                /\ pc' = "print_results"
                /\ UNCHANGED <<errors, envFault>>
  /\ UNCHANGED <<variant, src, run, conn, db, pending, txOpen, header, total_rows,
                 documents, rows_loaded, out, failedAt, fileOpen, prev, fn>>

\* count_https_websites / count_com_emails / count_info_domain_websites /
\* count_2020_subscriptions: list the fields, look for the field, and either
\* log "not found" and return 0 or run the count query and return its result.
\* The listing or the count query may fail.
Aggregate ==
  /\ pc = "aggregate"
  /\ \E fault \in {"none", "list", "count"} :
       LET m == FieldMatch
       IN  IF fault = "list" \/ (fault = "count" /\ m.found)
           THEN /\ agg' = [count |-> -1, match |-> IF fault = "list" THEN NoMatch ELSE m,
                           queries |-> IF fault = "list" THEN 0 ELSE 1]
                /\ errors' = Append(errors, "aggregate")
                /\ envFault' = "aggregate"
                /\ pc' = "except"
           ELSE IF ~m.found
           THEN /\ agg' = [count |-> 0, match |-> NoMatch, queries |-> 0]
                /\ errors' = Append(errors, "not_found")
                /\ pc' = "print_results"
                /\ UNCHANGED envFault
           ELSE /\ agg' = [count |-> CountQuery(m.name), match |-> m, queries |-> 1]
                /\ pc' = "print_results"
                /\ UNCHANGED <<errors, envFault>>
  /\ UNCHANGED <<variant, src, run, conn, db, pending, txOpen, header, total_rows,
                 documents, rows_loaded, out, failedAt, fileOpen, prev, fn>>

(***************************************************************************)
(* main(): results, error handling, cleanup.                               *)
(***************************************************************************)
Line(what, n) == [line |-> what, n |-> n]

\* print("RISULTATI:"), the rows loaded, the aggregate count
PrintResults ==
  /\ pc = "print_results"
  /\ out' = out \o <<Line("results", 0), Line("rows", rows_loaded), Line("count", agg.count)>>
  /\ pc' = "finally"
  /\ UNCHANGED <<variant, src, run, conn, db, pending, txOpen, header, total_rows,
                 documents, rows_loaded, agg, errors, failedAt, envFault, fileOpen, prev, fn>>

\* a different handler, for comparison: "except Exception: pass"
ExceptSilent ==
  /\ pc = "except"
  /\ pc' = "finally"
  /\ UNCHANGED <<variant, src, run, conn, db, pending, txOpen, header, total_rows,
                 documents, rows_loaded, agg, out, errors, failedAt, envFault,
                 fileOpen, prev, fn>>

\* a different main(), for comparison: the results are printed after the
\* try statement, so also when the handler has run
ExceptThenResults ==
  /\ pc = "except"
  /\ errors' = Append(errors, "main")
  /\ pc' = "print_results"
  /\ UNCHANGED <<variant, src, run, conn, db, pending, txOpen, header, total_rows,
                 documents, rows_loaded, agg, out, failedAt, envFault, fileOpen,
                 prev, fn>>

\* "except Exception as e: logger.error(...)" of main()
Except ==
  /\ pc = "except"
  /\ errors' = Append(errors, "main")
  /\ pc' = "finally"
  /\ UNCHANGED <<variant, src, run, conn, db, pending, txOpen, header, total_rows,
                 documents, rows_loaded, agg, out, failedAt, envFault, fileOpen, prev, fn>>

\* a different cleanup, for comparison: the connection is not closed
FinallyLeavingOpen ==
  /\ pc = "finally"
  /\ pending' = EmptyBag
  /\ txOpen' = FALSE
  /\ out' = Append(out, Line("elapsed", 0))
  /\ pc' = "done"
  /\ UNCHANGED <<variant, src, run, conn, db, header, total_rows, documents,
                 rows_loaded, agg, errors, failedAt, envFault, fileOpen, prev, fn>>

\* a different cleanup, for comparison: the open transaction is committed
\* before the connection is closed
FinallyCommitting ==
  /\ pc = "finally"
  /\ conn' = IF conn = "open" THEN "closed" ELSE conn
  /\ db' = Committed(db, pending)
  /\ pending' = EmptyBag
  /\ txOpen' = FALSE
  /\ out' = Append(out, Line("elapsed", 0))
  /\ pc' = "done"
  /\ UNCHANGED <<variant, src, run, header, total_rows, documents, rows_loaded,
                 agg, errors, failedAt, envFault, fileOpen, prev, fn>>

\* "finally:" of main(): close the connection if one was opened (what was
\* not committed is discarded with it), print the elapsed time
Finally ==
  /\ pc = "finally"
  /\ conn' = IF conn = "open" THEN "closed" ELSE conn
  /\ pending' = EmptyBag
  /\ txOpen' = FALSE
  /\ out' = Append(out, Line("elapsed", 0))
  /\ pc' = "done"
  /\ UNCHANGED <<variant, src, run, db, header, total_rows, documents, rows_loaded,
                 agg, errors, failedAt, envFault, fileOpen, prev, fn>>

\* the results block was printed
ResultsPrinted == \E i \in 1..Len(out) : out[i].line = "results"

\* The script is started again on the same file and the same destination.
Rerun ==
  /\ pc = "done"
  /\ run < MaxRuns
  /\ run' = run + 1
  /\ prev' = [ok |-> ResultsPrinted, rows |-> rows_loaded, count |-> agg.count]
  /\ pc' = "check_source"
  /\ conn' = "none"
  /\ pending' = EmptyBag
  /\ txOpen' = FALSE
  /\ header' = <<>>
  /\ total_rows' = 0
  /\ documents' = <<>>
  /\ rows_loaded' = -1
  /\ agg' = NoAgg
  /\ out' = <<>>
  /\ errors' = <<>>
  /\ failedAt' = 0
  /\ envFault' = "none"
  /\ fileOpen' = FALSE
  /\ UNCHANGED <<variant, src, db, fn>>

Next ==
  \/ CheckSource
  \/ ReadHeader
  \/ Connect
  \/ SqliteCreateTable
  \/ PgCreateTable
  \/ DropCollection
  \/ LoadBegin
  \/ SqlLoadRow
  \/ SqlLoadEnd
  \/ MongoLoadRow
  \/ MongoLoadEnd
  \/ DuckLoad
  \/ Aggregate
  \/ PrintResults
  \/ Except
  \/ Finally
  \/ Rerun

Spec == Init /\ [][Next]_vars

(***************************************************************************)
(* The helpers on their own: the sanitizers and the field matchers applied *)
(* to names, headers and field lists drawn from bounded sets, with no run  *)
(* of a script around them.                                                *)
(***************************************************************************)
\* the characters of the generated column names
NameAlphabet == {"a", "s", "A", "S", "i", "n", "o", " ", "_"}

RECURSIVE NamesOfLen(_)
\* every string of n characters of NameAlphabet
NamesOfLen(n) ==
  IF n = 0 THEN {""}
  ELSE {s \o c : s \in NamesOfLen(n - 1), c \in NameAlphabet}

\* reserved words as they stand, in other letter case, spelled with a space,
\* and names that already carry the suffix
ChosenNames ==
  {RESERVED_WORDS[i] : i \in 1..Len(RESERVED_WORDS)}
    \cup {RESERVED_WORDS[i] \o "_col" : i \in 1..Len(RESERVED_WORDS)}
    \cup {"SELECT", "Select", "Index", "Current Date", "CURRENT_DATE", "Group",
          "Select_Col", "select col", "Sign-up Date", "Email Address", "Name"}
    \* names with several spaces in a row and with a tab
    \cup {"First  Name", "Phone   1", "First\tName", "Zip \t Code"}

RawNames == UNION {NamesOfLen(n) : n \in 0..MaxNameLen} \cup ChosenNames

\* names a table or a document may list
FieldPool ==
  {"id", "name", "email", "email_address", "Mail", "website", "Web Site",
   "sito_web", "sign_up_date", "Subscription Date", "data_iscrizione"}

FieldLists == SeqsUpTo(FieldPool, MaxFields)

\* headers of different raw names that differ in letter case or in a space
MoreHeaders ==
  { <<"Email Address", "email_address", "Name">>,
    <<"Index", "INDEX">>,
    <<"Index", "index_col">>,
    <<"a b", "A B", "a_b">> }

\* headers made of reserved words in several spellings and of plain names
HeaderNames == {"Index", "Select", "select_col", "ORDER", "Phone 1", "Name", "Group By"}

GeneratedHeaders == SeqsUpTo(HeaderNames, MaxFields)

\* headers with and without names that read like dates to the loader
DocHeaders ==
  { <<"Email", "Subscription Date", "Website">>,
    <<"DATA Nascita", "Name", "Updated">>,
    <<"Name", "Phone 1", "Candidate">> }

\* texts of a field: dates in the format, with and without leading zeros, a
\* day that does not exist, other formats, text left over, nothing
DocValues ==
  {"2020-06-15", "2020-6-5", "2020-02-30", "15/06/2020", "2020-06-15 ", "abc", ""}

DocRows == SeqsUpTo(DocValues, MaxFields)

FnInputs ==
  {[op |-> "name", arg |-> n, res |-> <<>>] : n \in RawNames}
    \cup {[op |-> "row", arg |-> [header |-> h, row |-> r], res |-> <<>>] :
            h \in DocHeaders, r \in DocRows}
    \cup {[op |-> "header", arg |-> h, res |-> <<>>] : h \in HeaderPool \cup MoreHeaders \cup GeneratedHeaders}
    \cup {[op |-> "fields", arg |-> f, res |-> <<>>] : f \in FieldLists}

InitFn ==
  /\ variant = "sqlite"
  /\ src = MissingSource
  /\ run = 1
  /\ db = NoTable
  /\ prev = NoPrev
  /\ FreshRun
  /\ fn \in FnInputs

\* the variables of a run, which the helpers on their own leave alone
runVars == <<variant, src, run, pc, conn, db, pending, txOpen, header, total_rows,
             documents, rows_loaded, agg, out, errors, failedAt, envFault, fileOpen, prev>>

\* safe_col_name of the sqlite script and of the postgresql script
SanitizeName ==
  /\ fn.op = "name"
  /\ fn' = [op |-> "safe_name", arg |-> fn.arg,
            res |-> [sqlite |-> SqliteSafeColName(fn.arg),
                     postgres |-> PgSafeColName(fn.arg)]]
  /\ UNCHANGED runVars

\* the sanitizers applied to their own results
SanitizeAgain ==
  /\ fn.op = "safe_name"
  /\ fn' = [op |-> "safe_name_again", arg |-> fn.res,
            res |-> [sqlite |-> SqliteSafeColName(fn.res.sqlite),
                     postgres |-> PgSafeColName(fn.res.postgres)]]
  /\ UNCHANGED runVars

\* the storage names of a whole header
SanitizeHeader ==
  /\ fn.op = "header"
  /\ fn' = [op |-> "safe_header", arg |-> fn.arg,
            res |-> [sqlite |-> SqliteSafeColumnNames(fn.arg),
                     postgres |-> PgSafeColumnNames(fn.arg)]]
  /\ UNCHANGED runVars

\* each script's matcher on a list of fields
FindField ==
  /\ fn.op = "fields"
  /\ fn' = [op |-> "field_found", arg |-> fn.arg,
            res |-> [sqlite |-> SqliteWebsiteCol(fn.arg),
                     postgres |-> PgEmailCol(fn.arg),
                     duckdb |-> DuckWebsiteCol(fn.arg),
                     mongo |-> MongoDateField(fn.arg)]]
  /\ UNCHANGED runVars

\* the INSERT statement of the loaders for a header whose CREATE TABLE
\* columns have been computed
BuildInsert ==
  /\ fn.op = "safe_header"
  /\ fn' = [op |-> "insert_sql",
            arg |-> [header |-> fn.arg, created |-> fn.res],
            res |-> [sqlite |-> [columns |-> SqliteInsertColumns(fn.arg, 1, <<>>),
                                 placeholders |-> Placeholders(fn.arg, "?")],
                     postgres |-> [columns |-> PgInsertColumns(fn.arg),
                                   placeholders |-> Placeholders(fn.arg, "%s")]]]
  /\ UNCHANGED runVars

\* the document the mongodb loader makes of one row
BuildDocument ==
  /\ fn.op = "row"
  /\ fn' = [op |-> "doc", arg |-> fn.arg, res |-> MakeDoc(fn.arg.header, fn.arg.row)]
  /\ UNCHANGED runVars

NextFn ==
  \/ SanitizeName
  \/ SanitizeAgain
  \/ SanitizeHeader
  \/ FindField
  \/ BuildDocument
  \/ BuildInsert

SpecFn == InitFn /\ [][NextFn]_vars

(***************************************************************************)
(* The aggregates on their own: a run that has just loaded a file whose    *)
(* rows are drawn from a pool of values chosen for the count queries, and  *)
(* goes on from the aggregate to its end.                                  *)
(***************************************************************************)
AggHeader == <<"Email", "Subscription Date", "Website">>

\* e-mail addresses ending or not in ".com"; dates inside 2020, on its two
\* boundary days, before and after it, not in the %Y-%m-%d format, empty;
\* web addresses with the scheme in small and in capital letters
AggFullRows ==
  { <<"a@x.com", "2020-06-15", "https://a.info">>,
    <<"b@x.org", "2019-12-31", "http://b.com/x">>,
    <<"c@x.com", "2021-01-01", "HTTPS://c.org">>,
    <<"d@x.COM", "2020-01-01", "https://d.info/p">>,
    <<"e@x.com.br", "2020-12-31", "ftp://e.info">>,
    <<"f@x.com", "15/06/2020", "">>,
    <<"g@x.com", "", "https://g.com">> }

\* a row that ends before the date column
AggShortRows == { <<"h@x.com">> }

AggSources ==
  {[exists |-> TRUE, empty |-> FALSE, header |-> AggHeader, n |-> Len(rows),
    data |-> RunsOf(rows)] :
     rows \in SeqsUpTo(AggFullRows \cup AggShortRows, MaxAggRows)}

\* the table or collection a script leaves when its load of source s returns
Loaded(vr, s) ==
  CASE vr = "sqlite" -> Committed(EmptyTable(SqliteSafeColumnNames(s.header)), AllRows(s))
    [] vr = "postgres" -> Committed(EmptyTable(PgSafeColumnNames(s.header)), AllRows(s))
    [] vr = "duckdb" -> Committed(EmptyTable(s.header), AllRows(s))
    [] OTHER -> Inserted(NoTable,
                  [i \in 1..Len(s.data) |->
                     [item |-> MakeDoc(s.header, s.data[i].item),
                      times |-> s.data[i].times]])

\* main() when the loader has just returned
AfterLoad ==
  /\ run = 1
  /\ pc = "aggregate"
  /\ conn = "open"
  /\ db = Loaded(variant, src)
  /\ pending = EmptyBag
  /\ txOpen = FALSE
  /\ header = src.header
  /\ total_rows = 0
  /\ documents = <<>>
  /\ rows_loaded = src.n
  /\ agg = NoAgg
  /\ out = <<>>
  /\ errors = <<>>
  /\ failedAt = 0
  /\ envFault = "none"
  /\ fileOpen = FALSE
  /\ prev = NoPrev
  /\ fn = FnIdle

InitAgg ==
  /\ variant \in Variants
  /\ src \in AggSources
  \* only the mongodb loader gets past a row shorter than the header
  /\ variant # "mongo" => Uniform(src)
  /\ AfterLoad

NextAgg ==
  \/ Aggregate
  \/ PrintResults
  \/ Except
  \/ Finally

SpecAgg == InitAgg /\ [][NextAgg]_vars

(***************************************************************************)
(* Properties of the loaders.                                              *)
(***************************************************************************)
\* C1: in the sqlite, postgresql and mongodb scripts, once a load has
\* returned (no insertion failed), the value it returned is the number N of
\* data rows of the source, nothing is left uncommitted, and the table or
\* collection holds exactly N rows: no row is lost or written twice at a
\* batch boundary, for N = 0, N < 1000, N = 1000 and N beyond a multiple
\* of 1000.
C1_LoadReturnsEveryRow ==
  (variant \in {"sqlite", "postgres", "mongo"} /\ rows_loaded # -1)
    => /\ rows_loaded = src.n
       /\ BagCardinality(db.rows) = src.n
       /\ pending = EmptyBag
       /\ variant \in {"sqlite", "postgres"} => db.rows = AllRows(src)

\* a load of two full batches and one more row has returned
C1_Witness ==
  /\ variant = "postgres"
  /\ pc = "aggregate"
  /\ rows_loaded = MaxBatches * BATCH_SIZE + 1
  /\ BagCardinality(db.rows) = MaxBatches * BATCH_SIZE + 1

\* C2: in the sqlite and postgresql scripts, when the insertion of the k-th
\* data row fails, the loop is left for the error handling (no later row is
\* read or inserted), the table keeps the rows of the batches committed
\* before, 1000 * floor((k-1)/1000) of them, and at the end of the run no
\* row of the batch in flight is left, in the table or uncommitted.
C2_FailedRowKeepsCommittedBatches ==
  (variant \in {"sqlite", "postgres"} /\ failedAt > 0)
    => /\ pc \in {"except", "finally", "done"}
       /\ rows_loaded = -1
       /\ total_rows = 0
       /\ BagCardinality(db.rows) = BATCH_SIZE * ((failedAt - 1) \div BATCH_SIZE)
       /\ pc = "done" => pending = EmptyBag

\* the postgresql script has ended after the second row of the second batch
\* failed
C2_Witness ==
  /\ variant = "postgres"
  /\ pc = "done"
  /\ failedAt = BATCH_SIZE + 2
  /\ BagCardinality(db.rows) = BATCH_SIZE
  /\ pending = EmptyBag

\* C3: while the rows are loaded, after r records have been read and stored
\* the committed records are 1000 * floor(r/1000) and the uncommitted ones
\* the r mod 1000 others, never more than 1000; when the loader has returned
\* the final commit has left nothing uncommitted.
C3_BatchCommittedWhenFull ==
  /\ (pc = "load_rows" /\ variant \in {"sqlite", "postgres"})
       => /\ BagCardinality(db.rows) = BATCH_SIZE * (total_rows \div BATCH_SIZE)
          /\ BagCardinality(pending) = total_rows % BATCH_SIZE
          /\ BagCardinality(pending) <= BATCH_SIZE
  /\ (pc = "load_rows" /\ variant = "mongo")
       => /\ BagCardinality(db.rows) = BATCH_SIZE * (total_rows \div BATCH_SIZE)
          /\ RunsLen(documents) = total_rows % BATCH_SIZE
          /\ RunsLen(documents) <= BATCH_SIZE
  /\ (pc = "aggregate" /\ variant \in {"sqlite", "postgres", "mongo"})
       => /\ BagCardinality(db.rows) = rows_loaded
          /\ pending = EmptyBag
          /\ documents = <<>>

\* the mongodb loader has written one batch and buffers the row after it
C3_Witness ==
  /\ variant = "mongo"
  /\ pc = "load_rows"
  /\ total_rows = BATCH_SIZE + 1
  /\ BagCardinality(db.rows) = BATCH_SIZE
  /\ RunsLen(documents) = 1

\* C4: a run that printed its results leaves in the destination exactly the
\* rows of the source, whatever the table or collection held before; and
\* when the run before it (same file, same destination) printed its results
\* too, both report the same number of rows loaded and the same count.
C4_RerunGivesSameResults ==
  (pc = "done" /\ ResultsPrinted)
    => /\ IF variant = "mongo"
          THEN db.rows = RunsBag([i \in 1..Len(src.data) |->
                            [item |-> StoredDoc(MakeDoc(src.header, src.data[i].item)),
                             times |-> src.data[i].times]])
          ELSE db.rows = AllRows(src)
       /\ prev.ok => (rows_loaded = prev.rows /\ agg.count = prev.count)

\* the second of two runs of the mongodb script that both printed results
C4_Witness ==
  /\ variant = "mongo"
  /\ run = 2
  /\ prev.ok
  /\ pc = "done"
  /\ ResultsPrinted
  /\ rows_loaded = BATCH_SIZE
  /\ prev.rows = BATCH_SIZE
  /\ agg.count > 0

\* C5: on a file with a header and no data row, in the sqlite, postgresql
\* and mongodb scripts, the load never fails and returns 0, the aggregate
\* returns 0, and the run ends with the results printed unless the
\* connection, the server or the creation of the table made it fail.
C5_HeaderOnlySourceLoads ==
  (variant \in {"sqlite", "postgres", "mongo"} /\ src.exists /\ ~src.empty /\ src.n = 0)
    => /\ "load" \notin Range(errors)
       /\ rows_loaded \in {-1, 0}
       /\ agg.count \in {-1, 0}
       /\ pc = "done" => \/ ResultsPrinted /\ rows_loaded = 0 /\ agg.count = 0
                         \/ envFault # "none"
                         \/ "create_table" \in Range(errors)

\* the mongodb script has printed the results of a file with a header only
C5_Witness ==
  /\ variant = "mongo"
  /\ src.exists /\ ~src.empty /\ src.n = 0
  /\ pc = "done"
  /\ ResultsPrinted
  /\ rows_loaded = 0
  /\ agg.count = 0

(***************************************************************************)
(* Properties of the sanitizer.                                            *)
(***************************************************************************)
\* C6: the sqlite sanitizer applied to its own result returns that result,
\* for every raw name; and the name it makes of a reserved word, the word
\* with "_col" appended, is not a reserved word.
C6_SanitizerIdempotent ==
  /\ fn.op = "safe_name_again" => fn.res.sqlite = fn.arg.sqlite
  /\ (fn.op = "safe_name" /\ IsReserved(ReplaceSpaces(Lower(fn.arg))))
       => /\ fn.res.sqlite = ReplaceSpaces(Lower(fn.arg)) \o "_col"
          /\ ~IsReserved(fn.res.sqlite)

\* the sanitizer was applied twice to a reserved word written in capitals
C6_Witness ==
  /\ fn.op = "safe_name_again"
  /\ fn.arg.sqlite = "select_col"
  /\ fn.res.sqlite = "select_col"

\* C7: in the sqlite script, when the header has a column whose lower-cased,
\* space-replaced name is a reserved word and neither the connection nor the
\* disk fails, create_table creates the table, and the column's storage
\* name is that name with "_col" appended and is no reserved word.
C7_ReservedNameAccepted ==
  (/\ variant = "sqlite"
   /\ envFault = "none"
   /\ pc = "load_begin" \/ (pc = "except" /\ errors = <<"create_table">>)
   /\ \E i \in 1..Len(src.header) : IsReserved(ReplaceSpaces(Lower(src.header[i]))))
    => /\ pc = "load_begin"
       /\ \A i \in 1..Len(src.header) :
            IsReserved(ReplaceSpaces(Lower(src.header[i])))
              => /\ db.cols[i] = ReplaceSpaces(Lower(src.header[i])) \o "_col"
                 /\ ~IsReserved(db.cols[i])

\* create_table succeeded on a header with a reserved word and the column
\* got the suffix
C7_Witness ==
  /\ variant = "sqlite"
  /\ pc = "load_begin"
  /\ src.header[1] = "Index"
  /\ db.cols[1] = "index_col"

\* C8 (as stated): the header Name, Email Address, Sign-up Date is stored
\* under the names name, email_address, sign_up_date.
C8_HeaderExampleAsStated ==
  (fn.op = "safe_header" /\ fn.arg = <<"Name", "Email Address", "Sign-up Date">>)
    => /\ fn.res.sqlite = <<"name", "email_address", "sign_up_date">>
       /\ fn.res.postgres = <<"name", "email_address", "sign_up_date">>

\* C8: the header Name, Email Address, Sign-up Date is stored under the
\* names name, email_address, sign-up_date, in that order, by the sqlite and
\* by the postgresql sanitizer: spaces become underscores, the hyphen stays.
C8_HeaderExample ==
  (fn.op = "safe_header" /\ fn.arg = <<"Name", "Email Address", "Sign-up Date">>)
    => /\ fn.res.sqlite = <<"name", "email_address", "sign-up_date">>
       /\ fn.res.postgres = <<"name", "email_address", "sign-up_date">>

\* the example header has been sanitized
C8_Witness ==
  /\ fn.op = "safe_header"
  /\ fn.arg = <<"Name", "Email Address", "Sign-up Date">>
  /\ Len(fn.res.sqlite) = 3

(***************************************************************************)
(* Properties of the field matchers and of the aggregates.                 *)
(***************************************************************************)
\* C9: the matchers of the sqlite, postgresql and duckdb scripts return the
\* first field, in the listed order, whose lower-cased name is the primary
\* keyword or contains one of the substrings looked for, and "not found"
\* when no field is such; on name, email_address, sign_up_date the keywords
\* email and mail give email_address and the website keywords give "not
\* found".
C9_FirstQualifyingField ==
  fn.op = "field_found" =>
    LET keys == [sqlite   |-> [primary |-> "website", subs |-> {"website", "site", "sito"}],
                 postgres |-> [primary |-> "email", subs |-> {"email", "mail"}],
                 duckdb   |-> [primary |-> "website", subs |-> {"site", "sito"}]]
        Qualifies(v, f) ==
          \/ Lower(f) = keys[v].primary
          \/ \E s \in keys[v].subs : Contains(Lower(f), s)
        Hits(v) == {i \in 1..Len(fn.arg) : Qualifies(v, fn.arg[i])}
    IN  /\ \A v \in {"sqlite", "postgres", "duckdb"} :
             IF Hits(v) = {}
             THEN fn.res[v] = NoMatch
             ELSE \E i \in Hits(v) :
                    /\ \A j \in Hits(v) : i <= j
                    /\ fn.res[v] = Found(fn.arg[i])
        /\ fn.arg = <<"name", "email_address", "sign_up_date">>
             => /\ fn.res.postgres = Found("email_address")
                /\ fn.res.sqlite = NoMatch

\* a list with two qualifying fields, of which the matcher returned the first
C9_Witness ==
  /\ fn.op = "field_found"
  /\ fn.arg = <<"name", "email_address", "Mail">>
  /\ fn.res.postgres = Found("email_address")

\* C10: in the four scripts, when the load has returned and the listing of
\* the fields worked but no field qualifies, the aggregate returns 0 without
\* having sent a count query, no error reaches main(), and the run goes on to
\* print its results.
C10_NoMatchCountsZero ==
  (/\ rows_loaded # -1
   /\ pc # "aggregate"
   /\ envFault # "aggregate"
   /\ ~FieldMatch.found)
    => /\ agg.count = 0
       /\ agg.queries = 0
       /\ ~agg.match.found
       /\ "main" \notin Range(errors)
       /\ pc \in {"print_results", "finally", "done"}
       /\ pc \in {"finally", "done"} => ResultsPrinted

\* the duckdb script has printed a count of 0 for loaded rows without a
\* website column
C10_Witness ==
  /\ variant = "duckdb"
  /\ pc = "done"
  /\ ResultsPrinted
  /\ rows_loaded > 0
  /\ ~FieldMatch.found
  /\ agg.count = 0
  /\ agg.queries = 0

(***************************************************************************)
(* Properties of main(): resources, output, order of the phases.           *)
(***************************************************************************)
\* C11: the phases that use the destination run on an open connection; a
\* run that opened a connection ends with it closed; the connection is
\* opened only by the connect phase and closed only once, by the cleanup of
\* main(), on a connection that is open; nothing is written to the
\* destination once it is closed; and the loader holds the CSV file open
\* only while it loads the rows, never when another phase runs.
C11_ConnectionReleased ==
  /\ [](/\ pc \in {"create_table", "drop_collection", "load_begin", "load_rows",
                   "load_duckdb", "aggregate"} => conn = "open"
        /\ pc = "done" => conn \in {"none", "closed"}
        /\ fileOpen => pc = "load_rows")
  /\ [][/\ conn' # conn =>
             \/ conn = "none" /\ conn' = "open" /\ pc = "connect"
             \/ conn = "open" /\ conn' = "closed" /\ pc = "finally"
             \/ conn' = "none" /\ pc = "done" /\ pc' = "check_source"
        /\ conn = "closed" => (db' = db /\ pending' = pending)]_vars

\* a run whose load failed has ended with the connection closed
C11_Witness ==
  /\ pc = "done"
  /\ failedAt > 0
  /\ conn = "closed"
  /\ ~fileOpen

\* C12 (as stated): a run that ended without a value from the loader or
\* from the aggregate has printed the elapsed time, has logged an error
\* and has printed no result line.
C12_FailedRunAsStated ==
  (pc = "done" /\ (rows_loaded = -1 \/ agg.count = -1))
    => /\ \E i \in 1..Len(out) : out[i].line = "elapsed"
       /\ errors # <<>>
       /\ \A i \in 1..Len(out) : out[i].line \notin {"results", "rows", "count"}

\* C12: a run that ended without a value from the loader or from the
\* aggregate has logged an error and has printed no result line; it has
\* printed the elapsed time, and nothing else, unless the source file is
\* missing: then main() returns at once and prints nothing.
C12_FailedRunOutput ==
  (pc = "done" /\ (rows_loaded = -1 \/ agg.count = -1))
    => /\ errors # <<>>
       /\ \A i \in 1..Len(out) : out[i].line \notin {"results", "rows", "count"}
       /\ src.exists => out = <<Line("elapsed", 0)>>
       /\ ~src.exists => out = <<>>

\* the postgresql script has ended after a failed connection
C12_Witness ==
  /\ variant = "postgres"
  /\ pc = "done"
  /\ envFault = "connect"
  /\ errors = <<"main">>
  /\ out = <<Line("elapsed", 0)>>

\* C13: at the end of a run the two result lines are there exactly when no
\* error reached main() on an existing source, which is exactly when the
\* loader and the aggregate have both returned a value; and they stand
\* before the elapsed-time line. Before the end of the run the result lines
\* are never there without those two values.
C13_ResultsIffAllPhasesDone ==
  LET has(what) == \E i \in 1..Len(out) : out[i].line = what
      at(what) == CHOOSE i \in 1..Len(out) : out[i].line = what
  IN  /\ has("rows") <=> has("count")
      /\ has("rows") => (rows_loaded # -1 /\ agg.count # -1)
      /\ pc = "done" =>
           /\ has("rows") <=> (src.exists /\ "main" \notin Range(errors))
           /\ has("rows") <=> (rows_loaded # -1 /\ agg.count # -1)
           /\ has("rows") => /\ has("elapsed")
                             /\ at("rows") < at("elapsed")
                             /\ at("count") < at("elapsed")

\* a run has ended with its results and the elapsed time printed
C13_Witness ==
  /\ pc = "done"
  /\ Len(out) = 4
  /\ out[2].line = "rows"
  /\ out[2].n = BATCH_SIZE
  /\ out[3].line = "count"
  /\ out[4].line = "elapsed"

\* C14 (as stated): in the sqlite and postgresql scripts, after a load that
\* failed part-way main() holds the number of rows committed so far.
C14_FailureCarriesCountAsStated ==
  (variant \in {"sqlite", "postgres"} /\ failedAt > 0)
    => rows_loaded = BagCardinality(db.rows)

\* C14: in the sqlite and postgresql scripts, a load that failed part-way
\* is reported to main() by the logged and re-raised error alone: main()
\* gets no rows-loaded value, the loader's counter is gone, and what was
\* logged is the failure of the load and then main()'s own message.
C14_FailureCarriesNoCount ==
  (variant \in {"sqlite", "postgres"} /\ failedAt > 0)
    => /\ rows_loaded = -1
       /\ total_rows = 0
       /\ errors \in {<<"load">>, <<"load", "main">>}

\* the sqlite loader has failed on the first row after a committed batch
C14_Witness ==
  /\ variant = "sqlite"
  /\ pc = "except"
  /\ failedAt = BATCH_SIZE + 1
  /\ BagCardinality(db.rows) = BATCH_SIZE
  /\ rows_loaded = -1

\* C15: in every script, when the file has data rows shorter than the header
\* (and none longer) and the connection and the server work, no insertion
\* fails and the loader, once it has returned, has loaded every row.
C15_ShortRowLoaded ==
  (/\ envFault = "none"
   /\ \E i \in 1..src.n : Len(Row(src, i)) < Len(src.header)
   /\ \A i \in 1..src.n : Len(Row(src, i)) <= Len(src.header))
    => /\ failedAt = 0
       /\ "load" \notin Range(errors)
       /\ rows_loaded \in {-1, src.n}

\* the mongodb script has loaded a one-field row of a three-column file as a
\* document of that field (and the "_id")
C15_Witness ==
  /\ variant = "mongo"
  /\ pc = "done"
  /\ ResultsPrinted
  /\ Len(src.header) = 3
  /\ \E doc \in DOMAIN db.rows : Len(doc) = 2

(***************************************************************************)
(* Properties of the storage names, of the documents and of the aggregates.*)
(***************************************************************************)
\* C16: for every header whose raw names are pairwise distinct, the storage
\* names the sqlite sanitizer produces are pairwise distinct, and so are the
\* storage names the postgresql sanitizer produces.
C16_DistinctStorageNames ==
  (/\ fn.op = "safe_header"
   /\ \A i, j \in 1..Len(fn.arg) : i # j => fn.arg[i] # fn.arg[j])
    => \A v \in {"sqlite", "postgres"} :
         \A i, j \in 1..Len(fn.arg) : i # j => fn.res[v][i] # fn.res[v][j]

\* a header of three different raw names has been given two equal storage
\* names by both sanitizers
C16_Witness ==
  /\ fn.op = "safe_header"
  /\ fn.arg = <<"Email Address", "email_address", "Name">>
  /\ fn.res.sqlite[1] = fn.res.sqlite[2]
  /\ fn.res.postgres[1] = fn.res.postgres[2]

\* C17 as stated: every document the mongodb script's loader has built or
\* stored is keyed by the sanitized names of the header's columns, in the
\* header's order (after the "_id" once it is stored).
C17_KeyedBySanitizedNames ==
  variant = "mongo" =>
    /\ \A r \in 1..Len(documents) :
         LET doc == documents[r].item
         IN  /\ Len(doc) <= Len(src.header)
             /\ \A j \in 1..Len(doc) : doc[j].k = PgSafeColName(src.header[j])
    /\ rows_loaded # -1 =>
         \A doc \in DOMAIN db.rows :
           /\ doc[1].k = "_id"
           /\ Len(doc) - 1 <= Len(src.header)
           /\ \A j \in 2..Len(doc) : doc[j].k = PgSafeColName(src.header[j - 1])

\* C17: every document the mongodb script's loader has built or stored is
\* keyed by the raw names of the header's columns as they stand in the file,
\* in the header's order (after the "_id" once it is stored); no name is
\* sanitized.
C17_KeyedByRawNames ==
  variant = "mongo" =>
    /\ \A r \in 1..Len(documents) :
         LET doc == documents[r].item
         IN  /\ Len(doc) <= Len(src.header)
             /\ \A j \in 1..Len(doc) : doc[j].k = src.header[j]
    /\ rows_loaded # -1 =>
         \A doc \in DOMAIN db.rows :
           /\ doc[1].k = "_id"
           /\ Len(doc) - 1 <= Len(src.header)
           /\ \A j \in 2..Len(doc) : doc[j].k = src.header[j - 1]

\* a document is stored under a raw name with a capital and a space, which
\* the sanitizers would have changed
C17_Witness ==
  /\ variant = "mongo"
  /\ pc = "done"
  /\ \E doc \in DOMAIN db.rows :
       /\ Len(doc) = 4
       /\ doc[3].k = "Subscription Date"
       /\ doc[3].k # PgSafeColName(doc[3].k)
       /\ doc[3].v = DateVal(2020, 6, 15)

\* C18: when the aggregate has matched a field and returned, the postgresql
\* script's result is the number of loaded rows whose value in that field
\* ends with ".com" (a@x.com, b@x.org, c@x.com give 2), the sqlite script's
\* result is the number of loaded rows whose value in that field begins with
\* "https://", and the result lies between 0 and the number of rows loaded.
C18_SuffixAndPrefixCounts ==
  (/\ variant \in {"sqlite", "postgres"}
   /\ pc = "print_results"
   /\ agg.match.found)
    => LET col == ColumnIndex(db.cols, agg.match.name)
       IN  /\ variant = "postgres" =>
                agg.count = CountWhere(db.rows,
                              {r \in DOMAIN db.rows : EndsWith(r[col], ".com")})
           /\ (/\ variant = "postgres"
               /\ src.data = RunsOf(<< <<"a@x.com", "2020-06-15", "https://a.info">>,
                                       <<"b@x.org", "2019-12-31", "http://b.com/x">>,
                                       <<"c@x.com", "2021-01-01", "HTTPS://c.org">> >>))
                => agg.count = 2
           /\ variant = "sqlite" =>
                agg.count = CountWhere(db.rows,
                              {r \in DOMAIN db.rows : StartsWith(r[col], "https://")})
           /\ agg.count \in 0..rows_loaded

\* the sqlite script has counted a row whose web address begins with
\* "HTTPS://" in capitals
C18_Witness ==
  /\ variant = "sqlite"
  /\ pc = "print_results"
  /\ src.data = RunsOf(<< <<"c@x.com", "2021-01-01", "HTTPS://c.org">> >>)
  /\ agg.match = Found("website")
  /\ agg.count = 1

\* C19: when the mongodb script's aggregate has matched a date field and
\* returned, its result is the number of stored documents that have the
\* field with a calendar date of the year 2020 in it; the dates 2020-06-15,
\* 2019-12-31, 2021-01-01 give 1, the two boundary days 2020-01-01 and
\* 2020-12-31 are both counted, and documents in which the value stayed raw
\* text, is null or is absent are not counted.
C19_DatesOf2020Counted ==
  (/\ variant = "mongo"
   /\ pc = "print_results"
   /\ agg.match.found)
    => LET name == agg.match.name
           rowsAre(rows) == src.data = RunsOf(rows)
       IN  /\ agg.count =
                CountWhere(db.rows,
                  {doc \in DOMAIN db.rows :
                     /\ DocHas(doc, name)
                     /\ DocGet(doc, name).t = "date"
                     /\ DocGet(doc, name).y = 2020})
           /\ rowsAre(<< <<"a@x.com", "2020-06-15", "https://a.info">>,
                         <<"b@x.org", "2019-12-31", "http://b.com/x">>,
                         <<"c@x.com", "2021-01-01", "HTTPS://c.org">> >>)
                => agg.count = 1
           /\ rowsAre(<< <<"d@x.COM", "2020-01-01", "https://d.info/p">>,
                         <<"e@x.com.br", "2020-12-31", "ftp://e.info">> >>)
                => agg.count = 2
           /\ (\A i \in 1..src.n :
                 Row(src, i) \in {<<"f@x.com", "15/06/2020", "">>,
                                  <<"g@x.com", "", "https://g.com">>,
                                  <<"h@x.com">>})
                => agg.count = 0

\* the aggregate has counted the two boundary days of 2020
C19_Witness ==
  /\ variant = "mongo"
  /\ pc = "print_results"
  /\ agg.match = Found("Subscription Date")
  /\ src.data = RunsOf(<< <<"d@x.COM", "2020-01-01", "https://d.info/p">>,
                          <<"e@x.com.br", "2020-12-31", "ftp://e.info">> >>)
  /\ agg.count = 2

C21_EmptySourceIsFatal ==
  /\ []((src.exists /\ src.empty) =>
          /\ rows_loaded = -1
          /\ total_rows = 0
          /\ pending = EmptyBag
          /\ documents = <<>>
          /\ agg = NoAgg
          /\ ~ResultsPrinted
          /\ pc \notin {"load_rows", "aggregate", "print_results"}
          /\ variant # "mongo" => conn = "none"
          /\ pc = "done" =>
               /\ out = <<Line("elapsed", 0)>>
               /\ variant # "mongo" => errors = <<"read_header", "main">>
               /\ (variant = "mongo" /\ envFault = "none") => errors = <<"load", "main">>)
  /\ [][(src.exists /\ src.empty) =>
          \/ db' = db
          \/ variant = "mongo" /\ pc = "drop_collection" /\ db' = NoTable]_vars

\* the sqlite script has ended its run on a file without any record
C21_Witness ==
  /\ variant = "sqlite"
  /\ src.exists /\ src.empty
  /\ pc = "done"
  /\ errors = <<"read_header", "main">>
  /\ out = <<Line("elapsed", 0)>>
  /\ conn = "none"

(***************************************************************************)
(* More properties of the sanitizers.                                      *)
(***************************************************************************)
\* C22 as stated: the sanitizers replace each run of whitespace of a raw
\* name by a single underscore: a name without underscores of its own gets a
\* storage name (before any "_col") with no two underscores in a row and
\* with no space and no tab left; two spaces and a tab give one underscore.
C22_WhitespaceRunCollapsed ==
  fn.op = "safe_name" =>
    /\ ~Contains(fn.arg, "_") =>
         /\ ~Contains(fn.res.postgres, "__")
         /\ ~Contains(fn.res.postgres, " ")
         /\ ~Contains(fn.res.postgres, "\t")
    /\ fn.arg = "First  Name" => fn.res.postgres = "first_name"
    /\ fn.arg = "First\tName" => fn.res.postgres = "first_name"

\* C22: the sanitizers replace each space character of a raw name by one
\* underscore and lower-case every other character, position by position:
\* k spaces in a row give k underscores in a row and a tab stays a tab; the
\* sqlite sanitizer then appends "_col" to a reserved word.
C22_EachSpaceReplaced ==
  fn.op = "safe_name" =>
    LET base == fn.res.postgres
        at(s, i) == SubSeq(s, i, i)
    IN  /\ Len(base) = Len(fn.arg)
        /\ \A i \in 1..Len(fn.arg) :
             at(base, i) = IF at(fn.arg, i) = " " THEN "_" ELSE LowerChar(at(fn.arg, i))
        /\ fn.res.sqlite \in {base, base \o "_col"}
        /\ fn.arg = "First  Name" => base = "first__name"
        /\ fn.arg = "First\tName" => base = "first\tname"

\* a name with a space, a tab and a space in a row has been sanitized
C22_Witness ==
  /\ fn.op = "safe_name"
  /\ fn.arg = "Zip \t Code"
  /\ fn.res.sqlite = "zip_\t_code"
  /\ fn.res.postgres = "zip_\t_code"

(***************************************************************************)
(* Properties of the documents of the mongodb script.                      *)
(***************************************************************************)
\* C23 as stated: in the document made of a row, the value of every field
\* whose lower-cased name contains "date" or "data" is a calendar date or
\* else the text of the row unchanged, and the value of every other field is
\* the text of the row.
C23_DateOrRawText ==
  fn.op = "doc" =>
    \A j \in 1..Len(fn.res) :
      LET name == fn.arg.header[j]
          text == fn.arg.row[j]
          v    == fn.res[j].v
      IN  IF Contains(Lower(name), "date") \/ Contains(Lower(name), "data")
          THEN v.t = "date" \/ v = StrVal(text)
          ELSE v = StrVal(text)

\* C23: in the document made of a row, the value of every field whose
\* lower-cased name contains "date" or "data" is null when the text of the
\* row is empty, the calendar date when the text is a date in the format
\* YYYY-MM-DD (2020-06-15; also 2020-6-5), and the text unchanged in every
\* other case (a day that does not exist, another format, text left over);
\* the value of every other field is the text of the row.
C23_DateNullOrRawText ==
  fn.op = "doc" =>
    /\ Len(fn.res) = IF Len(fn.arg.row) < Len(fn.arg.header)
                     THEN Len(fn.arg.row) ELSE Len(fn.arg.header)
    /\ \A j \in 1..Len(fn.res) :
         LET name == fn.arg.header[j]
             text == fn.arg.row[j]
             v    == fn.res[j].v
         IN  /\ fn.res[j].k = name
             /\ IF Contains(Lower(name), "date") \/ Contains(Lower(name), "data")
                THEN CASE text = "" -> v = NullVal
                       [] text = "2020-06-15" -> v = DateVal(2020, 6, 15)
                       [] text = "2020-6-5" -> v = DateVal(2020, 6, 5)
                       [] OTHER -> v = StrVal(text)
                ELSE v = StrVal(text)

\* a row with an empty text, a name and a date has become a document whose
\* fields DATA Nascita and Updated hold null and a date
C23_Witness ==
  /\ fn.op = "doc"
  /\ fn.arg.header = <<"DATA Nascita", "Name", "Updated">>
  /\ fn.arg.row = <<"", "abc", "2020-06-15">>
  /\ fn.res = << [k |-> "DATA Nascita", v |-> NullVal],
                 [k |-> "Name", v |-> StrVal("abc")],
                 [k |-> "Updated", v |-> DateVal(2020, 6, 15)] >>

\* C24: the mongodb script's aggregate looks for the date field in the
\* first document of the collection only: when the collection is empty, or
\* when the first row of the file ended before the Subscription Date column,
\* it finds no field, sends no count query, logs "not found" and returns 0,
\* whatever dates of 2020 the later documents hold; when the first row has
\* the column, that field is the one matched.
C24_MatchOnFirstDocument ==
  (variant = "mongo" /\ pc = "print_results")
    => IF src.n > 0 /\ Len(Row(src, 1)) >= 2
       THEN /\ agg.match = Found("Subscription Date")
            /\ agg.queries = 1
       ELSE /\ agg.match = NoMatch
            /\ agg.queries = 0
            /\ agg.count = 0
            /\ errors = <<"not_found">>

\* the first row was short and two later rows hold dates of 2020: the
\* aggregate has returned 0
C24_Witness ==
  /\ variant = "mongo"
  /\ pc = "print_results"
  /\ src.data = RunsOf(<< <<"h@x.com">>,
                          <<"d@x.COM", "2020-01-01", "https://d.info/p">>,
                          <<"a@x.com", "2020-06-15", "https://a.info">> >>)
  /\ agg.match = NoMatch
  /\ agg.count = 0

(***************************************************************************)
(* What a run leaves of the destination's earlier contents.                *)
(***************************************************************************)
\* C25: in the four scripts, when the source file does not exist the run ends
\* in main() before anything else is done: no connection is ever opened, no
\* phase is entered, nothing is inserted, counted or printed, one error is
\* logged, and no step changes the table or collection the destination held
\* before the run.
C25_MissingSourceTouchesNothing ==
  /\ [](~src.exists =>
          /\ pc \in {"check_source", "done"}
          /\ conn = "none"
          /\ pending = EmptyBag /\ ~txOpen
          /\ documents = <<>>
          /\ rows_loaded = -1
          /\ agg = NoAgg
          /\ out = <<>>
          /\ pc = "done" => errors = <<"source_missing">>)
  /\ [][~src.exists => db' = db]_vars

\* the mongodb script has ended its run on a missing file and the collection
\* still holds the documents it held
C25_Witness ==
  /\ variant = "mongo"
  /\ ~src.exists
  /\ pc = "done"
  /\ errors = <<"source_missing">>
  /\ conn = "none"
  /\ db.exists
  /\ BagCardinality(db.rows) > 0

\* C26: in the sqlite, postgresql and duckdb scripts the table is dropped or
\* changed only in a run that has read the header of the file, in a phase
\* after the connect, so a run on a file without any record leaves the table
\* as it was; in the mongodb script the collection is dropped while the file
\* has not been opened yet, so such a run, when the connection and the drop
\* work, ends with the header read failed in the loader and the collection
\* empty.
C26_DropAfterHeaderRead ==
  /\ [](/\ (variant = "mongo" /\ pc = "drop_collection") => (~fileOpen /\ header = <<>>)
        /\ (/\ variant = "mongo" /\ src.exists /\ src.empty
            /\ envFault = "none" /\ pc \in {"load_begin", "except", "finally", "done"})
             => (db = NoTable /\ "read_header" \notin Range(errors)))
  /\ [][/\ (variant # "mongo" /\ db' # db) =>
             /\ src.exists /\ ~src.empty
             /\ pc \in {"create_table", "load_rows", "load_duckdb"}
             /\ errors = <<>>
        /\ (variant = "mongo" /\ src.exists /\ src.empty /\ db' # db) =>
             (pc = "drop_collection" /\ db' = NoTable)]_vars

\* the sqlite script has ended its run on a file without any record and the
\* table of an earlier run is still there
C26_Witness ==
  /\ variant = "sqlite"
  /\ src.exists /\ src.empty
  /\ pc = "done"
  /\ "read_header" \in Range(errors)
  /\ db.exists
  /\ BagCardinality(db.rows) > 0

(***************************************************************************)
(* Properties of the statements of the sqlite and postgresql loaders.      *)
(***************************************************************************)
\* C27: for every header, the column list of the INSERT statement of the
\* sqlite loader and of the postgresql loader is the list of the columns
\* that the script's CREATE TABLE declares after the id, name by name in the
\* same order, and the statement has one placeholder per header column.
C27_InsertColumnsAsCreated ==
  fn.op = "insert_sql" =>
    /\ fn.res.sqlite.columns = fn.arg.created.sqlite
    /\ fn.res.postgres.columns = fn.arg.created.postgres
    /\ Len(fn.res.sqlite.placeholders) = Len(fn.arg.header)
    /\ Len(fn.res.postgres.placeholders) = Len(fn.arg.header)

\* the statements for a header with a reserved word and a name with a space
C27_Witness ==
  /\ fn.op = "insert_sql"
  /\ fn.arg.header = <<"Index", "Phone 1", "Name">>
  /\ fn.arg.created.sqlite = <<"index_col", "phone_1", "name">>
  /\ fn.res.sqlite.columns = <<"index_col", "phone_1", "name">>
  /\ fn.res.sqlite.placeholders = <<"?", "?", "?">>
  /\ fn.res.postgres.columns = <<"index", "phone_1", "name">>

\* C28: in the sqlite script a transaction is begun only when none is open
\* (by the BEGIN TRANSACTION before the row loop, and again right after each
\* commit of a full batch), every row is inserted inside the open
\* transaction, and every transaction begun is ended by a commit (the rows
\* it holds become the table's) or by the rollback of the failing loader:
\* the transaction is open exactly during the row loop, whether the file has
\* no rows, a whole number of batches, or any other number of rows.
C28_TransactionsAlternate ==
  /\ [](variant = "sqlite" =>
          /\ txOpen <=> pc = "load_rows"
          /\ ~txOpen => pending = EmptyBag
          /\ BagCardinality(pending) < BATCH_SIZE
          /\ pc = "load_rows" =>
               /\ BagCardinality(pending) = total_rows % BATCH_SIZE
               /\ BagCardinality(db.rows) = total_rows - (total_rows % BATCH_SIZE))
  /\ [][variant = "sqlite" =>
          /\ (~txOpen /\ txOpen') => (pc = "load_begin" /\ pc' = "load_rows")
          /\ (txOpen /\ ~txOpen') =>
               \/ pc' = "aggregate" /\ db' = Committed(db, pending) /\ pending' = EmptyBag
               \/ pc' = "except" /\ db' = db /\ pending' = EmptyBag
          /\ pending' # pending => txOpen
          /\ (pc = "load_rows" /\ db' # db) =>
               /\ txOpen /\ pending' = EmptyBag
               /\ BagCardinality(db'.rows) =
                    IF pc' = "aggregate" THEN rows_loaded' ELSE total_rows']_vars

\* the loader has committed a file of exactly one batch in the loop and is
\* in the transaction it began after that commit, which holds no row
C28_Witness ==
  /\ variant = "sqlite"
  /\ pc = "load_rows"
  /\ src.n = BATCH_SIZE
  /\ total_rows = BATCH_SIZE
  /\ txOpen
  /\ pending = EmptyBag
  /\ BagCardinality(db.rows) = BATCH_SIZE

(***************************************************************************)
(* Properties of the batches of the mongodb loader.                        *)
(***************************************************************************)
\* C29: the mongodb loader writes with insert_many only buffers of 1 to
\* BATCH_SIZE documents: between two steps the buffer holds fewer than
\* BATCH_SIZE documents, every step of the loader that changes the
\* collection adds between 1 and BATCH_SIZE documents and leaves the buffer
\* empty, and at the end of the file an empty buffer (no data row, or a
\* whole number of batches) is not written: the loader returns without
\* touching the collection and without an error.
C29_NoEmptyBulkWrite ==
  /\ [](variant = "mongo" =>
          /\ RunsLen(documents) < BATCH_SIZE
          /\ pc = "load_rows" =>
               /\ RunsLen(documents) = total_rows % BATCH_SIZE
               /\ BagCardinality(db.rows) = total_rows - (total_rows % BATCH_SIZE))
  /\ [][(variant = "mongo" /\ pc = "load_rows") =>
          LET written == BagCardinality(db'.rows) - BagCardinality(db.rows)
          IN  /\ db' # db =>
                   /\ written \in 1..BATCH_SIZE
                   /\ documents' = <<>>
                   /\ pc' = "load_rows" =>
                        (written = BATCH_SIZE /\ written = RunsLen(documents) + 1)
                   /\ pc' = "aggregate" => written = RunsLen(documents)
              /\ (documents = <<>> /\ total_rows = src.n) =>
                   /\ db' = db
                   /\ pc' = "aggregate"
                   /\ rows_loaded' = src.n
                   /\ errors' = errors]_vars

\* the loader has returned from a file of exactly one batch: the batch was
\* written in the loop and nothing was written at the end
C29_Witness ==
  /\ variant = "mongo"
  /\ pc = "aggregate"
  /\ src.n = BATCH_SIZE
  /\ rows_loaded = BATCH_SIZE
  /\ BagCardinality(db.rows) = BATCH_SIZE
  /\ documents = <<>>
  /\ errors = <<>>

(***************************************************************************)
(* The equality test of the field matchers.                                *)
(***************************************************************************)
\* C30: for every list of field names, the matchers of the postgresql, sqlite
\* and duckdb scripts return what a matcher with the substring tests alone
\* returns (the first field whose lower-cased name contains "email" or
\* "mail"; "website", "site" or "sito"; "site" or "sito"): the test for the
\* name being exactly "email" or "website" changes nothing, and a field with
\* exactly that name is not taken before an earlier field that only contains
\* a substring.
C30_EqualityTestRedundant ==
  fn.op = "field_found" =>
    LET subs == [postgres |-> {"email", "mail"},
                 sqlite   |-> {"website", "site", "sito"},
                 duckdb   |-> {"site", "sito"}]
        Hits(v) == {i \in 1..Len(fn.arg) :
                      \E s \in subs[v] : Contains(Lower(fn.arg[i]), s)}
        BySubstring(v) ==
          IF Hits(v) = {} THEN NoMatch
          ELSE Found(fn.arg[CHOOSE i \in Hits(v) : \A k \in Hits(v) : i <= k])
    IN  /\ \A v \in {"postgres", "sqlite", "duckdb"} : fn.res[v] = BySubstring(v)
        /\ fn.arg = <<"email_address", "email">> => fn.res.postgres = Found("email_address")
        /\ fn.arg = <<"Web Site", "website">> =>
             (fn.res.sqlite = Found("Web Site") /\ fn.res.duckdb = Found("Web Site"))

\* a field named exactly "email" stands after a field that contains "email",
\* and the earlier field has been returned
C30_Witness ==
  /\ fn.op = "field_found"
  /\ fn.arg = <<"name", "email_address", "email">>
  /\ fn.res.postgres = Found("email_address")

=============================================================================
